---- MODULE Spec2Model ----
(***************************************************************************)
(* Model of the plugin framework of the Korp backend (korp.pluginlib):     *)
(* plugin configuration resolution (_configutil.py) and plugin loading     *)
(* with duplicate-route arbitration (_pluginloader.py), callback plugins   *)
(* and their dispatch, capability classes (_subclassplugin.py) and route   *)
(* declaration (_endpointplugin.py).                                       *)
(*                                                                         *)
(* The specifications share the variables:                                 *)
(*   SpecConfig    calls of add_plugin_config and get_plugin_config        *)
(*   SpecLoad      one run of load_plugins(app, plugin_list)               *)
(*   SpecCallback  one run of load_plugins followed by hook dispatches     *)
(*   SpecSubclass  definitions of capability classes and get_instance      *)
(*   SpecRoute     EndpointPlugin instances and their route declarations   *)
(***************************************************************************)
EXTENDS Integers, Sequences, FiniteSets, TLC

VARIABLES
    \* _configutil.py
    plugin_configs,           \* dict: plugin name -> config namespace
    _plugin_configs_expanded, \* set of plugin names already resolved
    call,                     \* the last get_plugin_config call: arguments,
                              \* the sources it read and its return value
    first_call,               \* plugin name -> defaults and return value of
                              \* the first get_plugin_config call for it
    registered,               \* every rule added to app.url_map, in the
                              \* order of registration
    \* _pluginloader.py: load_plugins and the Flask application
    pc,                       \* position of load_plugins
    plugin_list,              \* argument plugin_list of load_plugins
    idx,                      \* index of the next entry of plugin_list
    installed,                \* (package, plugin) modules that can be imported
    module_routes,            \* routes each plugin module declares
    HANDLE_NOT_FOUND,         \* pluginlibconf["HANDLE_NOT_FOUND"]
    HANDLE_DUPLICATE_ROUTES,  \* pluginlibconf["HANDLE_DUPLICATE_ROUTES"]
    loaded_plugins,           \* keys of the OrderedDict loaded_plugins
    _rules,                   \* app.url_map._rules
    _rules_by_endpoint,       \* app.url_map._rules_by_endpoint
    _matcher,                 \* rules held by app.url_map._matcher
    _remap,                   \* app.url_map._remap
    sys_path,                 \* sys.path
    stderr,                   \* diagnostics printed to sys.stderr
    raised,                   \* the exception load_plugins ended with
    arbitrations,             \* number of calls of
                              \* _handle_duplicate_routing_rules
    matched,                  \* the last request matched by app.url_map
    \* callback plugins
    hook_points,              \* hook name -> the instances registered for
                              \* it, in the order of registration
    callback_instances,       \* callback class -> number of instances made
    dispatch,                 \* the last dispatch: its arguments, the calls
                              \* of hook methods it made and its result
    \* _subclassplugin.py
    _subclass,                \* SubclassPlugin._subclass
    _overridden,              \* SubclassPlugin._overridden
    _instance,                \* SubclassPlugin._instance
    defined,                  \* the classes defined so far, in order
    constructed,              \* class -> number of runs of its constructor
    slots,                    \* annotated attributes of the host module
    got,                      \* the last get_instance call and its result
    \* _endpointplugin.py
    _endpoint_decorators,     \* names of EndpointPlugin._endpoint_decorators
    blueprints,               \* plugin -> routes of its EndpointPlugin
    \* _pluginloader.py: _find_plugin
    found,                    \* the last call of _find_plugin: the module
                              \* names that failed and the outcome
    \* plugin information
    info_modules,             \* module -> the variables of its info module
    PLUGIN_INFO,              \* module -> its attribute PLUGIN_INFO
    declared_info,            \* module -> PLUGIN_INFO as the module defines it
    descriptors,              \* the values of the OrderedDict loaded_plugins
    listing,                  \* the last call of get_loaded_plugins
    \* requests and the per-request state of callback plugins
    requests,                 \* slot -> the request being processed in it
    next_serial,              \* number of requests received so far, plus 1
    finished,                 \* the requests whose processing has ended
    _loggers,                 \* KorpLogger._loggers
    _logdata,                 \* KorpLogger._logdata
    _data,                    \* StateExample._data
    \* korpplugins.protectedcorporadb
    PERSISTENT_DB_CONNECTION, \* pluginconf["PERSISTENT_DB_CONNECTION"]
    _connection,              \* ProtectedCorporaDatabase._connection
    open_connections,         \* the database connections that are open
    protected,                \* the last call of get_protected_corpora
    \* korpplugins.logger: TruncatingLogFormatter
    LOG_MESSAGE_TRUNCATE_POS, \* pluginconf["LOG_MESSAGE_TRUNCATE_POS"]
    record,                   \* the LogRecord to format
    formatted,                \* what format returned for it
    \* the configuration sources of a plugin over the life of the process
    deployment,               \* the sources as the deployment wrote them
    source_objects,           \* the same objects as they are now
    \* request threads calling get_instance
    threads,                  \* thread -> its place in get_instance and
                              \* its local variables
    returned,                 \* the instances get_instance has returned
    \* requests with a method
    served                    \* the last request dispatched by path and
                              \* method, and the endpoint that served it

configVars == <<plugin_configs, _plugin_configs_expanded, call, first_call>>
loadVars == <<registered, pc, plugin_list, idx, installed, module_routes,
              HANDLE_NOT_FOUND, HANDLE_DUPLICATE_ROUTES, loaded_plugins,
              _rules, _rules_by_endpoint, _matcher, _remap, sys_path,
              stderr, raised, arbitrations, matched>>
callbackVars == <<hook_points, callback_instances, dispatch>>
subclassVars == <<_subclass, _overridden, _instance, defined, constructed,
                  slots, got>>
routeVars == <<_endpoint_decorators, blueprints>>
findVars == <<found>>
infoVars == <<info_modules, PLUGIN_INFO, declared_info, descriptors, listing>>
requestVars == <<requests, next_serial, finished, _loggers, _logdata, _data>>
dbVars == <<PERSISTENT_DB_CONNECTION, _connection, open_connections,
           protected>>
formatVars == <<LOG_MESSAGE_TRUNCATE_POS, record, formatted>>
processVars == <<deployment, source_objects>>
threadVars == <<threads, returned>>
methodVars == <<served>>
laterVars == <<processVars, threadVars, methodVars>>
extVars == <<findVars, infoVars, requestVars, dbVars, formatVars, laterVars>>
vars == <<plugin_configs, _plugin_configs_expanded, call, first_call,
          registered, pc, plugin_list, idx, installed, module_routes,
          HANDLE_NOT_FOUND, HANDLE_DUPLICATE_ROUTES, loaded_plugins,
          _rules, _rules_by_endpoint, _matcher, _remap, sys_path,
          stderr, raised, arbitrations, matched, hook_points, callback_instances, dispatch,
          _subclass, _overridden, _instance, defined, constructed, slots,
          got, _endpoint_decorators, blueprints, found, info_modules,
          PLUGIN_INFO, declared_info, descriptors, listing, requests,
          next_serial, finished, _loggers, _logdata, _data,
          PERSISTENT_DB_CONNECTION, _connection, open_connections,
          protected, LOG_MESSAGE_TRUNCATE_POS, record, formatted,
          deployment, source_objects, threads, returned, served>>

(***************************************************************************)
(* Configuration objects.  A dict or namespace is a function from the set  *)
(* of its keys to values.  _make_config never inspects a value, so each    *)
(* source gives its own value to a key: the origin of every value of a     *)
(* resolved config is then visible in the result.                          *)
(***************************************************************************)
Keys == {"A", "B", "RENAME_ROUTES"}

None == "None"

EmptyConf == [k \in {} |-> None]

Sources == {"entry", "section", "module", "defaults"}

SourceValue ==
    [entry    |-> [A |-> "9", B |-> "9", RENAME_ROUTES |-> "dict"],
     section  |-> [A |-> "5", B |-> "5", RENAME_ROUTES |-> "format"],
     module   |-> [A |-> "3", B |-> "3", RENAME_ROUTES |-> "callable"],
     defaults |-> [A |-> "1", B |-> "2", RENAME_ROUTES |-> "None"]]

ConfOf(src, keys) == [k \in keys |-> SourceValue[src][k]]

Confs(src) == {ConfOf(src, keys) : keys \in SUBSET Keys}

\* Plugin names; "a" and "b" are packages under a plugin package, "c" is a
\* top-level module (get_plugin_name returns pkg = None for it)
PluginNames == {"a", "b", "c"}

TopLevelPlugins == {"c"}

\* The deployment: the Korp configuration has a section PLUGIN_CONFIG_A
\* only, and the plugin list attaches a configuration to "a" only
SectionPlugins == {"a"}

EntryPlugins == {"a"}

\* The plugins whose configuration SpecConfig resolves
ConfigPlugins == {"a", "c"}

\* always_add of get_plugin_config
AlwaysAdd == [k \in {"RENAME_ROUTES"} |-> None]

\* bool(conf_dict): a dict is true when it is not empty
NonEmpty(conf) == DOMAIN conf # {}

\* dict.setdefault for every item of add
SetDefaults(conf, add) ==
    [k \in DOMAIN conf \cup DOMAIN add |->
        IF k \in DOMAIN conf THEN conf[k] ELSE add[k]]

\* The first non-empty conf of configs being made the default
DefaultIndex_first_non_empty(configs) ==
    IF \E i \in 1..Len(configs) : NonEmpty(configs[i])
    THEN CHOOSE i \in 1..Len(configs) :
            /\ NonEmpty(configs[i])
            /\ \A j \in 1..(i-1) : ~NonEmpty(configs[j])
    ELSE 0

\* Index in configs of the conf the reversed loop makes the default: the
\* last non-empty one; 0 when every conf is empty
DefaultIndex(configs) ==
    IF \E i \in 1..Len(configs) : NonEmpty(configs[i])
    THEN CHOOSE i \in 1..Len(configs) :
            /\ NonEmpty(configs[i])
            /\ \A j \in (i+1)..Len(configs) : ~NonEmpty(configs[j])
    ELSE 0

\* default_conf after the loop over reversed(configs)
default_conf(configs, always_add) ==
    LET di == DefaultIndex(configs)
    IN  IF di = 0 THEN EmptyConf
        ELSE IF NonEmpty(always_add)
             THEN SetDefaults(configs[di], always_add)
             ELSE configs[di]

\* other_confs after the loop: the non-empty confs before the default, in
\* the order of configs (highest priority first)
RECURSIVE NonEmptyPrefix(_, _)
NonEmptyPrefix(configs, n) ==
    IF n = 0 THEN << >>
    ELSE IF NonEmpty(configs[n])
         THEN Append(NonEmptyPrefix(configs, n - 1), configs[n])
         ELSE NonEmptyPrefix(configs, n - 1)

other_confs(configs) ==
    LET di == DefaultIndex(configs)
    IN  IF di = 0 THEN << >> ELSE NonEmptyPrefix(configs, di - 1)

\* The inner loop over other_confs: the value of the first conf that has
\* attrname, else the value left from default_conf
RECURSIVE FirstValue(_, _, _)
FirstValue(others, attrname, dflt) ==
    IF others = << >> THEN dflt
    ELSE IF attrname \in DOMAIN Head(others)
         THEN Head(others)[attrname]
         ELSE FirstValue(Tail(others), attrname, dflt)

\* _make_config giving the lowest-priority other conf the last word
_make_config_lowest_first(configs, always_add) ==
    LET dc == default_conf(configs, always_add)
        oc == other_confs(configs)
        rev == [i \in 1..Len(oc) |-> oc[Len(oc) + 1 - i]]
    IN  [attrname \in DOMAIN dc |-> FirstValue(rev, attrname, dc[attrname])]

\* _make_config copying every key of the other confs into the result
_make_config_all_keys(configs, always_add) ==
    LET dc == default_conf(configs, always_add)
        oc == other_confs(configs)
        keys == DOMAIN dc \cup UNION {DOMAIN oc[i] : i \in 1..Len(oc)}
    IN  [attrname \in keys |->
            FirstValue(oc, attrname,
                       IF attrname \in DOMAIN dc THEN dc[attrname] ELSE None)]

_make_config(configs, always_add) ==
    LET dc == default_conf(configs, always_add)
    IN  [attrname \in DOMAIN dc |->
            FirstValue(other_confs(configs), attrname, dc[attrname])]

(***************************************************************************)
(* _configutil.py: add_plugin_config and get_plugin_config                 *)
(***************************************************************************)
NoCall ==
    [plugin |-> "", first |-> FALSE, entry |-> EmptyConf,
     section |-> EmptyConf, module |-> EmptyConf, defaults |-> EmptyConf,
     ret |-> EmptyConf, error |-> None]

\* dict item assignment d[key] = value
SetItem(d, key, value) ==
    [k \in DOMAIN d \cup {key} |-> IF k = key THEN value ELSE d[k]]

\* dict.get(key, {})
GetOrEmpty(d, key) == IF key \in DOMAIN d THEN d[key] ELSE EmptyConf

\* The config module of the plugin: package.plugin.config or package.config
\* for a plugin in a package (an empty namespace when the import fails),
\* an empty namespace for a top-level module
plugin_config_mod(plugin, module_conf) ==
    IF plugin \in TopLevelPlugins THEN EmptyConf ELSE module_conf

\* getattr(korpconf, "PLUGIN_CONFIG_" + plugin.upper(), {})
korpconf_section(plugin, section) ==
    IF plugin \in SectionPlugins THEN section ELSE EmptyConf

\* The configs get_plugin_config passes to _make_config, highest priority
\* first
ConfigSources(configs, plugin, defaults, section, module_conf) ==
    << GetOrEmpty(configs, plugin),
       korpconf_section(plugin, section),
       plugin_config_mod(plugin, module_conf),
       defaults >>

\* The module state of _configutil, with the record of the calls
ConfigState ==
    [configs |-> plugin_configs, expanded |-> _plugin_configs_expanded,
     call |-> call, first_call |-> first_call]

\* add_plugin_config(plugin_name, config) applied to the state st
add_plugin_config(st, plugin, config) ==
    [st EXCEPT !.configs = SetItem(st.configs, plugin, config)]

\* get_plugin_config expanding the configuration on every call
NeedsExpansion_always(expanded, plugin) == TRUE

\* Whether get_plugin_config expands the configuration of plugin
NeedsExpansion(expanded, plugin) == plugin \notin expanded

\* Whether a get_plugin_config call is the first one for plugin
FirstCall(first_calls, plugin) == plugin \notin DOMAIN first_calls

\* get_plugin_config called from the plugin (or for it) applied to the
\* state st; section and module_conf are the values of
\* korpconf.PLUGIN_CONFIG_<PLUGIN> and of the config module it reads
get_plugin_config(st, plugin, defaults, section, module_conf) ==
    LET expand == NeedsExpansion(st.expanded, plugin)
        first == FirstCall(st.first_call, plugin)
        configs ==
            IF expand
            THEN SetItem(st.configs, plugin,
                         _make_config(ConfigSources(st.configs, plugin,
                                                    defaults, section,
                                                    module_conf),
                                      AlwaysAdd))
            ELSE st.configs
    IN  [configs  |-> configs,
         expanded |-> IF expand THEN st.expanded \cup {plugin}
                      ELSE st.expanded,
         call |->
            [plugin   |-> plugin,
             first    |-> first,
             entry    |-> IF first THEN GetOrEmpty(st.configs, plugin)
                          ELSE EmptyConf,
             section  |-> IF first THEN korpconf_section(plugin, section)
                          ELSE EmptyConf,
             module   |-> IF first THEN plugin_config_mod(plugin, module_conf)
                          ELSE EmptyConf,
             defaults |-> defaults,
             ret      |-> configs[plugin],
             \* neither get_plugin_config nor _make_config raises
             error    |-> None],
         first_call |->
            IF first
            THEN SetItem(st.first_call, plugin,
                         [defaults |-> defaults, ret |-> configs[plugin]])
            ELSE st.first_call]

\* The state st becomes the module state of _configutil
SetConfigState(st) ==
    /\ plugin_configs' = st.configs
    /\ _plugin_configs_expanded' = st.expanded
    /\ call' = st.call
    /\ first_call' = st.first_call

\* A plugin-list entry (plugin, config) attaches config to the plugin before
\* the plugin is imported
AddPluginConfig ==
    \E plugin \in ConfigPlugins \cap EntryPlugins, config \in Confs("entry") :
        /\ plugin \notin DOMAIN plugin_configs
        /\ SetConfigState(add_plugin_config(ConfigState, plugin, config))
        /\ UNCHANGED <<loadVars, callbackVars, subclassVars, extVars, routeVars>>

\* The values korpconf.PLUGIN_CONFIG_<PLUGIN> and the config module of the
\* plugin can have in the deployment
SectionConfs(plugin) ==
    IF plugin \in SectionPlugins THEN Confs("section") ELSE {EmptyConf}

ModuleConfs(plugin) ==
    IF plugin \in TopLevelPlugins THEN {EmptyConf} ELSE Confs("module")

\* The first get_plugin_config call for a plugin reads the sources
ResolvePluginConfig ==
    \E plugin \in ConfigPlugins, defaults \in Confs("defaults") :
      \E section \in SectionConfs(plugin), module_conf \in ModuleConfs(plugin) :
        /\ FirstCall(first_call, plugin)
        /\ SetConfigState(get_plugin_config(ConfigState, plugin, defaults,
                                            section, module_conf))
        /\ UNCHANGED <<loadVars, callbackVars, subclassVars, extVars, routeVars>>

\* A later get_plugin_config call for the plugin
CachedPluginConfig ==
    \E plugin \in ConfigPlugins, defaults \in Confs("defaults") :
        /\ ~FirstCall(first_call, plugin)
        /\ SetConfigState(get_plugin_config(ConfigState, plugin, defaults,
                                            EmptyConf, EmptyConf))
        /\ UNCHANGED <<loadVars, callbackVars, subclassVars, extVars, routeVars>>

(***************************************************************************)
(* _endpointplugin.py: routes declared by a plugin module                  *)
(*                                                                         *)
(* A rule string is the sequence of its parts: "/x" is <<"/", "x">>.       *)
(***************************************************************************)
\* The rules a plugin module can declare, without the leading slash
RuleNames == {"x", "y"}

\* The most routes one plugin module declares
MaxRoutes == 2

RouteSeqs == UNION {[1..n -> RuleNames] : n \in 0..MaxRoutes}

\* The values of RENAME_ROUTES: the format string "{0}_v2", the dict
\* {"x": "y"}, a function prefixing "v2" and None
rename_rule(configs, plugin_name, rule) ==
    IF plugin_name \notin DOMAIN configs THEN rule
    ELSE LET plugin_config == configs[plugin_name]
             rename == IF "RENAME_ROUTES" \in DOMAIN plugin_config
                       THEN plugin_config["RENAME_ROUTES"] ELSE None
         IN  CASE rename = "format" -> rule \o <<"_v2">>
               [] rename = "dict" -> IF rule = <<"x">> THEN <<"y">> ELSE rule
               [] rename = "callable" -> <<"v2">> \o rule
               [] OTHER -> rule

\* rule = "/" + rename_rule(rule) without the removal of the leading slash
EffectiveRule_slash_kept(configs, plugin_name, rule) ==
    <<"/">> \o rename_rule(configs, plugin_name, rule)

\* rule = "/" + rename_rule(rule[1:])
EffectiveRule(configs, plugin_name, rule) ==
    <<"/">> \o rename_rule(configs, plugin_name, Tail(rule))

\* The url rules of the blueprint of a plugin module whose functions are
\* decorated with route(rule) for the rules in routes, in this order; the
\* endpoint of the i-th function is <<plugin, i>>
BlueprintRules(configs, plugin_name, routes) ==
    [i \in 1..Len(routes) |->
        [rule |-> EffectiveRule(configs, plugin_name, <<"/", routes[i]>>),
         endpoint |-> <<plugin_name, i>>]]

\* EndpointPlugin.__init__: a plugin without a configuration gets one
EndpointPluginInit(st, plugin_name) ==
    IF plugin_name \notin DOMAIN st.configs
    THEN add_plugin_config(st, plugin_name, AlwaysAdd)
    ELSE st

(***************************************************************************)
(* The routing table app.url_map                                           *)
(***************************************************************************)
\* The rules of the host application, registered before the plugins load
HostRules == << [rule |-> <<"/", "x">>, endpoint |-> <<"korp", 1>>] >>

\* list.remove(item): remove the first occurrence of item
RECURSIVE RemoveFirst(_, _)
RemoveFirst(seq, item) ==
    IF seq = << >> THEN << >>
    ELSE IF Head(seq) = item THEN Tail(seq)
         ELSE <<Head(seq)>> \o RemoveFirst(Tail(seq), item)

\* _rules_by_endpoint after url_map.add(rule)
IndexAdd(index, rule) ==
    [e \in DOMAIN index \cup {rule.endpoint} |->
        IF e = rule.endpoint
        THEN (IF e \in DOMAIN index THEN index[e] ELSE << >>) \o <<rule>>
        ELSE index[e]]

\* The url map m after url_map.add for every rule of rules, in order
RECURSIVE MapAddAll(_, _)
MapAddAll(m, rules) ==
    IF rules = << >> THEN m
    ELSE MapAddAll([_rules |-> Append(m._rules, Head(rules)),
                    _rules_by_endpoint |->
                        IndexAdd(m._rules_by_endpoint, Head(rules)),
                    _matcher |-> Append(m._matcher, Head(rules)),
                    _remap |-> TRUE],
                   Tail(rules))

UrlMap ==
    [_rules |-> _rules, _rules_by_endpoint |-> _rules_by_endpoint,
     _matcher |-> _matcher, _remap |-> _remap]

SetUrlMap(m) ==
    /\ _rules' = m._rules
    /\ _rules_by_endpoint' = m._rules_by_endpoint
    /\ _matcher' = m._matcher
    /\ _remap' = m._remap

EmptyMap ==
    [_rules |-> << >>, _rules_by_endpoint |-> << >>, _matcher |-> << >>,
     _remap |-> FALSE]

\* The endpoint that answers a request for path: the first matching rule of
\* the matcher
RECURSIVE FirstMatch(_, _)
FirstMatch(rules, path) ==
    IF rules = << >> THEN <<"404", 0>>
    ELSE IF Head(rules).rule = path THEN Head(rules).endpoint
         ELSE FirstMatch(Tail(rules), path)

MatchEndpoint(path) == FirstMatch(_matcher, path)

(***************************************************************************)
(* _pluginloader.py: _find_key_duplicates and the handling of duplicates   *)
(***************************************************************************)
\* The key of a rule being its path together with its methods
RuleKey_with_methods(item) == <<item.rule, item.methods>>

\* key_func = str: the string of a rule is its path
RuleKey(item) == item.rule

\* The keys of item_dict in the order of insertion
RECURSIVE KeyOrder(_)
KeyOrder(items) ==
    IF items = << >> THEN << >>
    ELSE LET k == RuleKey(Head(items))
             NotK(r) == RuleKey(r) # k
         IN  <<k>> \o KeyOrder(SelectSeq(Tail(items), NotK))

ItemsOfKey(items, k) ==
    LET IsK(r) == RuleKey(r) = k
    IN  SelectSeq(items, IsK)

\* The OrderedDict returned without the deletion of the keys that have a
\* single item
_find_key_duplicates_single_kept(items) ==
    LET keys == KeyOrder(items)
    IN  [i \in 1..Len(keys) |->
            [key |-> keys[i], items |-> ItemsOfKey(items, keys[i])]]

\* The OrderedDict returned, as the sequence of its (key, items) pairs
_find_key_duplicates(items) ==
    LET keys == KeyOrder(items)
        item_dict == [i \in 1..Len(keys) |->
                        [key |-> keys[i], items |-> ItemsOfKey(items, keys[i])]]
        HasSeveral(pair) == Len(pair.items) # 1
    IN  SelectSeq(item_dict, HasSeveral)

Endpoints(rules) == [i \in 1..Len(rules) |-> rules[i].endpoint]

\* rules[:-1] keeping the first rule instead of the last
AllButLast_first_kept(rules) == Tail(rules)

\* rules[:-1]
AllButLast(rules) == SubSeq(rules, 1, Len(rules) - 1)

\* "override" in handle_mode holding for every mode
IsOverride_always(handle_mode) == TRUE

\* "override" in handle_mode
IsOverride(handle_mode) == handle_mode \in {"override", "override,warn"}

\* "warn" in pluginlibconf["HANDLE_DUPLICATE_ROUTES"]
HasWarn(handle_mode) == handle_mode \in {"warn", "override,warn"}

\* The url map after the removal of the rules of one group of duplicates
RECURSIVE RemoveRules(_, _)
RemoveRules(m, rules) ==
    IF rules = << >> THEN m
    ELSE LET rule == Head(rules)
         IN  RemoveRules(
                [m EXCEPT !._rules = RemoveFirst(m._rules, rule),
                          !._rules_by_endpoint =
                              [m._rules_by_endpoint EXCEPT ![rule.endpoint] =
                                  RemoveFirst(@, rule)]],
                Tail(rules))

\* The loop of _remove_duplicate_routing_rules over dupls
RECURSIVE RemoveDuplicates(_, _)
RemoveDuplicates(m, dupls) ==
    IF dupls = << >> THEN m
    ELSE RemoveDuplicates(RemoveRules(m, AllButLast(Head(dupls).items)),
                          Tail(dupls))

OverrideWarning(pair) ==
    [kind |-> "overrides", subject |-> pair.key,
     used |-> <<pair.items[Len(pair.items)].endpoint>>,
     discarded |-> Endpoints(AllButLast(pair.items))]

\* The matcher left as url_map.update() leaves it
NewMatcher_not_rebuilt(old, rules) == old

\* Lines 286-290: a new matcher to which every rule of iter_rules() is
\* added
NewMatcher(old, rules) == rules

\* url_map.update() re-sorts the rules by their match key, which is the
\* same for all one-part static rules, and clears _remap; the new matcher
\* gets the retained rules in the order of iter_rules()
_remove_duplicate_routing_rules(m, handle_mode) ==
    LET dupls == _find_key_duplicates(m._rules)
        removed == RemoveDuplicates(m, dupls)
    IN  [map |-> IF dupls # << >>
                 THEN [removed EXCEPT !._remap = FALSE,
                                      !._matcher =
                                          NewMatcher(m._matcher,
                                                     removed._rules)]
                 ELSE m,
         out |-> IF HasWarn(handle_mode)
                 THEN [i \in 1..Len(dupls) |-> OverrideWarning(dupls[i])]
                 ELSE << >>,
         raise |-> FALSE]

\* ", ".join(rule.endpoint for rule in rules[1:])
Discarded(rules) == Endpoints(Tail(rules))

\* The endpoints the error message names, without the first one
Conflicting_short(rules) == Endpoints(Tail(rules))

\* ", ".join(rule.endpoint for rule in rules)
Conflicting(rules) == Endpoints(rules)

DuplicateMessage(pair, handle_mode) ==
    IF handle_mode = "warn"
    THEN [kind |-> "using the first", subject |-> pair.key,
          used |-> <<pair.items[1].endpoint>>,
          discarded |-> Discarded(pair.items)]
    ELSE [kind |-> "multiple endpoints", subject |-> pair.key,
          used |-> << >>,
          discarded |-> Conflicting(pair.items)]

\* The new url map, the messages printed to stderr and whether ValueError
\* is raised
_handle_duplicate_routing_rules(m, handle_mode) ==
    IF IsOverride(handle_mode)
    THEN _remove_duplicate_routing_rules(m, handle_mode)
    ELSE IF handle_mode \in {"warn", "error"}
         THEN LET dupls == _find_key_duplicates(m._rules)
              IN  [map |-> m,
                   out |-> [i \in 1..Len(dupls) |->
                               DuplicateMessage(dupls[i], handle_mode)],
                   raise |-> dupls # << >> /\ handle_mode = "error"]
         ELSE [map |-> m, out |-> << >>, raise |-> FALSE]

(***************************************************************************)
(* Callback plugins: the classes of the plugin modules (example1,          *)
(* example2) and their registration and dispatch by CallbackPlugin and     *)
(* CallbackPluginCaller                                                    *)
(***************************************************************************)
\* The hook points the callback classes of the plugin modules implement
HookNames ==
    {"enter_handler", "exit_handler", "error", "filter_args",
     "filter_result", "filter_cqp_input", "filter_cqp_output", "filter_sql"}

\* The hook points called with filter_value_for_request
FilterHooks ==
    {"filter_args", "filter_result", "filter_cqp_input",
     "filter_cqp_output", "filter_sql"}

\* The callback classes a plugin module defines, in the order of their
\* definition: "a" as korpplugins.example1, "c" as the stand-alone module
\* example2
CallbackClasses(plugin) ==
    CASE plugin = "a" -> <<"Example1b">>
      [] plugin = "c" -> <<"Example2", "Example3", "Example4a", "Example4b",
                           "StateExample">>
      [] OTHER -> << >>

ClassNames ==
    {"Example1b", "Example2", "Example3", "Example4a", "Example4b",
     "StateExample"}

\* The hook methods a callback class defines
HooksOf(cls) ==
    CASE cls = "Example1b" -> {"filter_result"}
      [] cls = "Example2" -> {"filter_result"}
      [] cls = "Example3" -> HookNames
      [] cls = "Example4a" -> {"enter_handler", "filter_result"}
      [] cls = "Example4b" -> {"enter_handler"}
      [] cls = "StateExample" -> {"enter_handler", "exit_handler"}

\* The requests, by their endpoint
Requests == {"info.info", "count.count"}

\* The value passed to a filter chain by the host
Values == {<<"d">>}

\* The value None among the values of a chain, which are sequences
NoneValue == <<"None">>

\* The class method applies_to(request_obj); the default accepts every
\* request
applies_to(cls, request) ==
    CASE cls = "Example4a" -> request = "info.info"
      [] cls = "Example4b" -> request # "info.info"
      [] OTHER -> TRUE

\* The return value of the hook method of cls for the hook point; a dict
\* wrapping d is the sequence of its keys followed by d, and a method
\* without a return statement returns None
HookMethod(cls, hook, request, value) ==
    CASE cls = "Example1b" /\ hook = "filter_result" ->
            <<request, "wrap_default">> \o value
      [] cls = "Example2" /\ hook = "filter_result" -> <<"wrap2">> \o value
      [] cls = "Example4a" /\ hook = "filter_result" -> <<"info">> \o value
      [] OTHER -> NoneValue

CallbackState ==
    [hook_points |-> hook_points, instances |-> callback_instances]

SetCallbackState(cs) ==
    /\ hook_points' = cs.hook_points
    /\ callback_instances' = cs.instances

\* The definition of a callback class putting its instance first in the
\* lists of its hook points
RegisterCallbackClass_first(cs, cls) ==
    LET inst == <<cls, cs.instances[cls] + 1>>
    IN  [hook_points |->
            [h \in HookNames |->
                IF h \in HooksOf(cls)
                THEN <<inst>> \o cs.hook_points[h]
                ELSE cs.hook_points[h]],
         instances |-> [cs.instances EXCEPT ![cls] = @ + 1]]

\* The definition of a callback class: one instance is made and appended
\* to the list of every hook point the class implements
RegisterCallbackClass(cs, cls) ==
    LET inst == <<cls, cs.instances[cls] + 1>>
    IN  [hook_points |->
            [h \in HookNames |->
                IF h \in HooksOf(cls)
                THEN Append(cs.hook_points[h], inst)
                ELSE cs.hook_points[h]],
         instances |-> [cs.instances EXCEPT ![cls] = @ + 1]]

\* The class definitions of a plugin module, run by its import
RECURSIVE RegisterClasses(_, _)
RegisterClasses(cs, classes) ==
    IF classes = << >> THEN cs
    ELSE RegisterClasses(RegisterCallbackClass(cs, Head(classes)),
                         Tail(classes))

ImportCallbacks(cs, plugin) == RegisterClasses(cs, CallbackClasses(plugin))

\* The instances every one of which is taken as applicable
Applicable_all(insts, request) == insts

\* The instances of a hook point whose class accepts the request
Applicable(insts, request) ==
    LET Accepts(inst) == applies_to(inst[1], request)
    IN  SelectSeq(insts, Accepts)

\* The value a filter chain goes on with after a hook method returned
\* retval, the return value replacing the value in every case
NextValue_replaced(value, retval) == retval

\* The value a filter chain goes on with after a hook method returned
\* retval: the methods that only observe the value (Example3,
\* KorpLogger.filter_sql) return None and sql_execute uses the result
NextValue(value, retval) == IF retval # NoneValue THEN retval ELSE value

\* The calls a filter chain makes for the instances insts, in order
RECURSIVE FilterCalls(_, _, _, _)
FilterCalls(insts, hook, request, value) ==
    IF insts = << >> THEN << >>
    ELSE LET retval == HookMethod(Head(insts)[1], hook, request, value)
         IN  <<[instance |-> Head(insts), arg |-> value, ret |-> retval]>>
             \o FilterCalls(Tail(insts), hook, request,
                            NextValue(value, retval))

\* filter_value_for_request(hook_point, value): the calls made and the
\* value returned
filter_value_for_request(hook, request, value) ==
    LET calls == FilterCalls(Applicable(hook_points[hook], request),
                             hook, request, value)
    IN  [calls |-> calls,
         result |-> IF calls = << >> THEN value
                    ELSE NextValue(calls[Len(calls)].arg,
                                   calls[Len(calls)].ret)]

\* The result of a broadcast being what the last hook method returned
EventResult_last(calls) ==
    IF calls = << >> THEN NoneValue ELSE calls[Len(calls)].ret

\* The result of a broadcast: the return values are discarded
EventResult(calls) == NoneValue

\* raise_event_for_request(hook_point, *args): the calls made and the
\* value returned
raise_event_for_request(hook, request, args) ==
    LET insts == Applicable(hook_points[hook], request)
        calls == [i \in 1..Len(insts) |->
                    [instance |-> insts[i], arg |-> args,
                     ret |-> HookMethod(insts[i][1], hook, request, args)]]
    IN  [calls |-> calls, result |-> EventResult(calls)]

NoDispatch ==
    [kind |-> "None", hook |-> "None", request |-> "None",
     value |-> NoneValue, calls |-> << >>, result |-> NoneValue]

\* The host filters a value through a hook point while it handles a request
FilterValue ==
    /\ pc = "done"
    /\ \E hook \in FilterHooks : \E request \in Requests :
       \E value \in Values :
          LET res == filter_value_for_request(hook, request, value)
          IN  dispatch' = [kind |-> "filter", hook |-> hook,
                           request |-> request, value |-> value,
                           calls |-> res.calls, result |-> res.result]
    /\ UNCHANGED <<configVars, loadVars, hook_points, callback_instances,
                   subclassVars, extVars, routeVars>>

\* The host or a plugin raises an event at a hook point while a request is
\* handled; every hook point can be called in this way
RaiseEvent ==
    /\ pc = "done"
    /\ \E hook \in HookNames : \E request \in Requests :
       \E value \in Values :
          LET res == raise_event_for_request(hook, request, value)
          IN  dispatch' = [kind |-> "event", hook |-> hook,
                           request |-> request, value |-> value,
                           calls |-> res.calls, result |-> res.result]
    /\ UNCHANGED <<configVars, loadVars, hook_points, callback_instances,
                   subclassVars, extVars, routeVars>>

InitCallbackVars ==
    /\ hook_points = [h \in HookNames |-> << >>]
    /\ callback_instances = [cls \in ClassNames |-> 0]
    /\ dispatch = NoDispatch

(***************************************************************************)
(* Per-request state of callback plugins: KorpLogger (logger/__init__.py)  *)
(* and StateExample (example2.py).  The host processes up to two requests  *)
(* at a time; for each it raises enter_handler, calls the filter hooks of  *)
(* the queries it makes and raises exit_handler, each hook method of each  *)
(* plugin being one step.                                                  *)
(***************************************************************************)
\* The requests that can be processed at the same time
Slots == {1, 2}

\* The values id(request) can have: the identity of an object that has
\* been freed can be given to a new object
Ids == {1, 2}

\* The number of requests the host receives
MaxRequests == 3

\* The number of CQP queries made for a request
MaxQueries == 1

NoRequest ==
    [phase |-> "none", id |-> 0, serial |-> 0, queries |-> 0,
     seen |-> << >>]

\* An entry that is not in a dictionary
Missing == [serial |-> 0, starttime |-> 0, cqp_start_time |-> 0,
            cqp_time_sum |-> 0]

\* The key being one for every request
_get_request_id_shared(request) == 0

\* _get_request_id(request): id(request)
_get_request_id(request) == request.id

\* d[key], Missing where Python raises KeyError
Lookup(d, key) == IF key \in DOMAIN d THEN d[key] ELSE Missing

\* del d[key]
Delete(d, key) == [k \in DOMAIN d \ {key} |-> d[k]]

\* The request objects that are alive: those being processed and those
\* StateExample._data still refers to as keys
LiveIds ==
    {requests[slot].id : slot \in {sl \in Slots :
                                      requests[sl].phase # "none"}}
        \cup DOMAIN _data

\* The state KorpLogger keeps for requests
LoggerState == [_loggers |-> _loggers, _logdata |-> _logdata]

\* Lines 253-274 and 353, 387: _init_logging and the two _set_logdata calls
\* of enter_handler; the start time of a request is its serial number
_init_logging(ls, request, starttime) ==
    LET request_id == _get_request_id(request)
    IN  [_loggers |-> SetItem(ls._loggers, request_id,
                              [Missing EXCEPT !.serial = request.serial,
                                              !.starttime = starttime]),
         _logdata |-> SetItem(ls._logdata, request_id,
                              [Missing EXCEPT !.serial = request.serial,
                                              !.starttime = starttime])]

\* Lines 276-280: _end_logging
_end_logging(ls, request) ==
    LET request_id == _get_request_id(request)
    IN  [_loggers |-> Delete(ls._loggers, request_id),
         _logdata |-> Delete(ls._logdata, request_id)]

\* Lines 282-285: _get_logdata
_get_logdata(ls, request, key) ==
    Lookup(ls._logdata, _get_request_id(request))[key]

\* Lines 287-297: _set_logdata
_set_logdata(ls, request, key, value) ==
    LET request_id == _get_request_id(request)
    IN  IF request_id \in DOMAIN ls._logdata
        THEN [ls EXCEPT !._logdata[request_id][key] = value]
        ELSE ls

\* Lines 338-340: _get_logger
_get_logger(ls, request) == Lookup(ls._loggers, _get_request_id(request))

SetLoggerState(ls) ==
    /\ _loggers' = ls._loggers
    /\ _logdata' = ls._logdata

\* The host receives a request: a new request object
NewRequest ==
    /\ pc = "idle"
    /\ next_serial <= MaxRequests
    /\ \E slot \in Slots : \E id \in Ids \ LiveIds :
          /\ requests[slot].phase = "none"
          /\ requests' = [requests EXCEPT ![slot] =
                            [NoRequest EXCEPT !.phase = "new", !.id = id,
                                              !.serial = next_serial]]
    /\ next_serial' = next_serial + 1
    /\ UNCHANGED <<finished, _loggers, _logdata, _data>>
    /\ UNCHANGED <<configVars, loadVars, callbackVars, subclassVars,
                   routeVars, findVars, infoVars, dbVars, formatVars, laterVars>>

\* KorpLogger.enter_handler(request, args, starttime)
EnterLogger ==
    /\ \E slot \in Slots :
          LET request == requests[slot]
              ls1 == _init_logging(LoggerState, request, request.serial)
              ls2 == _set_logdata(ls1, request, "cqp_time_sum", 0)
          IN  /\ request.phase = "new"
              /\ SetLoggerState(ls2)
              /\ requests' = [requests EXCEPT ![slot].phase = "entered"]
    /\ UNCHANGED <<next_serial, finished, _data>>
    /\ UNCHANGED <<configVars, loadVars, callbackVars, subclassVars,
                   routeVars, findVars, infoVars, dbVars, formatVars, laterVars>>

\* StateExample.enter_handler(request, args, starttime)
EnterState ==
    /\ \E slot \in Slots :
          LET request == requests[slot]
          IN  /\ request.phase = "entered"
              /\ _data' = SetItem(_data, request.id,
                                  [Missing EXCEPT
                                      !.serial = request.serial,
                                      !.starttime = request.serial])
              /\ requests' = [requests EXCEPT ![slot].phase = "handling"]
    /\ UNCHANGED <<next_serial, finished, _loggers, _logdata>>
    /\ UNCHANGED <<configVars, loadVars, callbackVars, subclassVars,
                   routeVars, findVars, infoVars, dbVars, formatVars, laterVars>>

\* KorpLogger.filter_cqp_input(request, cqp): the time is the serial
\* number of the request
FilterCqpInput ==
    /\ \E slot \in Slots :
          LET request == requests[slot]
          IN  /\ request.phase = "handling"
              /\ request.queries < MaxQueries
              /\ SetLoggerState(_set_logdata(LoggerState, request,
                                             "cqp_start_time",
                                             request.serial))
              /\ requests' = [requests EXCEPT ![slot].phase = "cqp"]
    /\ UNCHANGED <<next_serial, finished, _data>>
    /\ UNCHANGED <<configVars, loadVars, callbackVars, subclassVars,
                   routeVars, findVars, infoVars, dbVars, formatVars, laterVars>>

\* KorpLogger.filter_cqp_output(request, output): every query takes one
\* unit of time
FilterCqpOutput ==
    /\ \E slot \in Slots :
          LET request == requests[slot]
              start == _get_logdata(LoggerState, request, "cqp_start_time")
              sum == _get_logdata(LoggerState, request, "cqp_time_sum")
          IN  /\ request.phase = "cqp"
              /\ SetLoggerState(_set_logdata(LoggerState, request,
                                             "cqp_time_sum", sum + 1))
              /\ requests' = [requests EXCEPT
                                ![slot].phase = "handling",
                                ![slot].queries = @ + 1,
                                ![slot].seen =
                                    <<"filter_cqp_output", start,
                                      _get_logger(LoggerState,
                                                  request).starttime>>]
    /\ UNCHANGED <<next_serial, finished, _data>>
    /\ UNCHANGED <<configVars, loadVars, callbackVars, subclassVars,
                   routeVars, findVars, infoVars, dbVars, formatVars, laterVars>>

\* KorpLogger.exit_handler(request, endtime, elapsed_time, result_len)
ExitLogger ==
    /\ \E slot \in Slots :
          LET request == requests[slot]
          IN  /\ request.phase = "handling"
              /\ SetLoggerState(_end_logging(LoggerState, request))
              /\ requests' = [requests EXCEPT
                                ![slot].phase = "exiting",
                                ![slot].seen =
                                    <<"exit_handler",
                                      _get_logdata(LoggerState, request,
                                                   "cqp_time_sum"),
                                      _get_logger(LoggerState,
                                                  request).starttime>>]
    /\ UNCHANGED <<next_serial, finished, _data>>
    /\ UNCHANGED <<configVars, loadVars, callbackVars, subclassVars,
                   routeVars, findVars, infoVars, dbVars, formatVars, laterVars>>

\* StateExample.exit_handler(request, endtime, *rest); the processing of
\* the request ends and the request object is freed
ExitState ==
    /\ \E slot \in Slots :
          LET request == requests[slot]
          IN  /\ request.phase = "exiting"
              /\ _data' = Delete(_data, request.id)
              /\ finished' = finished \cup
                    {[serial |-> request.serial,
                      seen |-> <<"StateExample.exit_handler",
                                 Lookup(_data, request.id).starttime>>]}
              /\ requests' = [requests EXCEPT ![slot] = NoRequest]
    /\ UNCHANGED <<next_serial, _loggers, _logdata>>
    /\ UNCHANGED <<configVars, loadVars, callbackVars, subclassVars,
                   routeVars, findVars, infoVars, dbVars, formatVars, laterVars>>

\* KorpLogger.exit_handler raises before line 427 (os.getloadavg() raises
\* OSError, or the logger of the request is missing): the exception
\* leaves the dispatch, the hook methods after it are not called, and the
\* processing of the request ends
ExitLoggerRaises ==
    /\ \E slot \in Slots :
          LET request == requests[slot]
          IN  /\ request.phase = "handling"
              /\ finished' = finished \cup
                    {[serial |-> request.serial,
                      seen |-> <<"OSError", 0>>]}
              /\ requests' = [requests EXCEPT ![slot] = NoRequest]
    /\ UNCHANGED <<next_serial, _loggers, _logdata, _data>>
    /\ UNCHANGED <<configVars, loadVars, callbackVars, subclassVars,
                   routeVars, findVars, infoVars, dbVars, formatVars, laterVars>>

InitRequestVars ==
    /\ requests = [slot \in Slots |-> NoRequest]
    /\ next_serial = 1
    /\ finished = {}
    /\ _loggers = << >>
    /\ _logdata = << >>
    /\ _data = << >>

(***************************************************************************)
(* korpplugins.protectedcorporadb: ProtectedCorporaDatabase                *)
(***************************************************************************)
\* The output of cwb.run_cqp("show corpora;"): the CQP version and the
\* corpora known to the query engine
ShowCorpora == <<"CQP version", "A", "B", "C">>

\* The rows the query of LIST_PROTECTED_CORPORA_SQL can give
ProtectedRows == {<< >>, <<"a">>, <<"a", "c">>}

\* str.upper for the corpus names of the database
upper == [corpus \in {"a", "b", "c"} |->
             IF corpus = "a" THEN "A" ELSE IF corpus = "b" THEN "B" ELSE "C"]

\* The number of calls of get_protected_corpora in a behaviour
MaxDbCalls == 3

\* protected_corpora = None
NoneList == <<"None">>

\* What the database does in a call: whether MySQLdb.connect and
\* cursor.execute raise a MySQLError, and the number of rows the cursor
\* gives before it raises one (-1 when it gives every row)
DbOutcomes ==
    [connect : {"ok", "error"}, execute : {"ok", "error"},
     rows : ProtectedRows, fetch_error_at : {-1, 1}]

\* Lines 94-110: _connect; connecting opens the connection number
\* Cardinality(open) + 1
_connect(conn, open, outcome) ==
    IF conn # 0 THEN [_connection |-> conn, open |-> open]
    ELSE IF outcome.connect = "ok"
         THEN LET new == CHOOSE n \in 1..(Cardinality(open) + 1) :
                            n \notin open
              IN  [_connection |-> new, open |-> open \cup {new}]
         ELSE [_connection |-> 0, open |-> open]

\* Line 77: the list comprehension over the cursor, NoneList when the
\* cursor raises before the list is complete
FetchedCorpora(outcome) ==
    IF outcome.fetch_error_at # -1 /\ outcome.fetch_error_at <= Len(outcome.rows)
    THEN NoneList
    ELSE [i \in 1..Len(outcome.rows) |-> upper[outcome.rows[i]]]

\* Every error giving an empty list
AllIfNone_empty(protected_corpora) ==
    IF protected_corpora = NoneList THEN << >> ELSE protected_corpora

\* Lines 88-91: all corpora are taken as protected when the database could
\* not be read
AllIfNone(protected_corpora) ==
    IF protected_corpora = NoneList THEN Tail(ShowCorpora)
    ELSE protected_corpora

\* Lines 70-92: get_protected_corpora
get_protected_corpora(conn, open, persistent, outcome) ==
    LET c == _connect(conn, open, outcome)
        queried == c._connection # 0 /\ outcome.execute = "ok"
        protected_corpora == IF queried THEN FetchedCorpora(outcome)
                             ELSE NoneList
        closes == protected_corpora # NoneList /\ ~persistent
    IN  [ret |-> AllIfNone(protected_corpora),
         _connection |-> IF closes THEN 0 ELSE c._connection,
         open |-> IF closes THEN c.open \ {c._connection} ELSE c.open,
         read |-> protected_corpora # NoneList]

NoProtected ==
    [ret |-> << >>, read |-> FALSE, reused |-> FALSE, n |-> 0,
     outcome |-> [connect |-> "ok", execute |-> "ok", rows |-> << >>,
                  fetch_error_at |-> -1]]

\* The host asks for the protected corpora
GetProtectedCorpora ==
    /\ pc = "idle"
    /\ protected.n < MaxDbCalls
    /\ \E outcome \in DbOutcomes :
          LET res == get_protected_corpora(_connection, open_connections,
                                           PERSISTENT_DB_CONNECTION, outcome)
          IN  /\ _connection' = res._connection
              /\ open_connections' = res.open
              /\ protected' = [ret |-> res.ret, read |-> res.read,
                               reused |-> _connection # 0,
                               n |-> protected.n + 1, outcome |-> outcome]
    /\ UNCHANGED PERSISTENT_DB_CONNECTION
    /\ UNCHANGED <<configVars, loadVars, callbackVars, subclassVars,
                   routeVars, findVars, infoVars, requestVars, formatVars, laterVars>>

InitDbVars ==
    /\ PERSISTENT_DB_CONNECTION = TRUE
    /\ _connection = 0
    /\ open_connections = {}
    /\ protected = NoProtected

(***************************************************************************)
(* korpplugins.logger: TruncatingLogFormatter                              *)
(***************************************************************************)
\* The longest formatted message and the largest maxlen
MaxMessageLen == 6

\* The largest absolute value of LOG_MESSAGE_TRUNCATE_POS
MaxTruncatePos == 3

\* pluginconf["LOG_MESSAGE_TRUNCATE_TEXT"]: two characters that no message
\* has
LOG_MESSAGE_TRUNCATE_TEXT == <<0, 0>>

\* What logging.Formatter.format gives for a record whose formatted
\* message has n characters: the characters are numbered by their place
Message(n) == [i \in 1..n |-> i]

\* s[:n] of Python
SliceTo(s, n) ==
    IF n >= 0 THEN SubSeq(s, 1, IF n < Len(s) THEN n ELSE Len(s))
    ELSE SubSeq(s, 1, IF Len(s) + n > 0 THEN Len(s) + n ELSE 0)

\* s[n:] of Python
SliceFrom(s, n) ==
    IF n >= 0 THEN SubSeq(s, (IF n < Len(s) THEN n ELSE Len(s)) + 1, Len(s))
    ELSE SubSeq(s, (IF Len(s) + n > 0 THEN Len(s) + n ELSE 0) + 1, Len(s))

\* Lines 196-211: TruncatingLogFormatter.format, result being what
\* logging.Formatter.format returns
format(result, maxlen, trunc_pos) ==
    IF maxlen > 0 /\ Len(result) > maxlen
    THEN LET trunc_text == LOG_MESSAGE_TRUNCATE_TEXT
             trunc_head_len == IF trunc_pos < 0
                               THEN maxlen + trunc_pos - Len(trunc_text)
                               ELSE trunc_pos
             trunc_tail_len == IF trunc_pos < 0
                               THEN -trunc_pos
                               ELSE maxlen - trunc_pos - Len(trunc_text)
         IN  SliceTo(result, trunc_head_len) \o trunc_text
                 \o SliceFrom(result, -trunc_tail_len)
    ELSE result

NotFormatted == <<-1>>

\* A handler formats the record
Format ==
    /\ pc = "idle"
    /\ formatted = NotFormatted
    /\ formatted' = format(record.result, record.maxlen,
                           LOG_MESSAGE_TRUNCATE_POS)
    /\ UNCHANGED <<LOG_MESSAGE_TRUNCATE_POS, record>>
    /\ UNCHANGED <<configVars, loadVars, callbackVars, subclassVars,
                   routeVars, findVars, infoVars, requestVars, dbVars,
                   laterVars>>

InitFormatVars ==
    /\ LOG_MESSAGE_TRUNCATE_POS = -100
    /\ record = [result |-> << >>, maxlen |-> 100000]
    /\ formatted = NotFormatted

(***************************************************************************)
(* _subclassplugin.py: capability classes                                  *)
(***************************************************************************)
\* The abstract base classes of the host (korp.utils), subclasses of
\* SubclassPlugin
BaseClasses == {"ProtectedCorporaGetter", "BaseAuthorizer"}

\* The subclasses the plugin modules define, all of them subclasses of
\* ProtectedCorporaGetter
SubClasses == {"C1", "C2", "C3"}

BaseOf(cls) == "ProtectedCorporaGetter"

\* The most calls of get_instance and register_subclass_plugins
MaxCalls == 3

\* None among the instances, which are pairs of a class and the number of
\* the run of its constructor that made them
NoInstance == <<"None", 0>>

SubclassState ==
    [_subclass |-> _subclass, _overridden |-> _overridden,
     _instance |-> _instance, constructed |-> constructed]

SetSubclassState(ss) ==
    /\ _subclass' = ss._subclass
    /\ _overridden' = ss._overridden
    /\ _instance' = ss._instance
    /\ constructed' = ss.constructed

\* SubclassPlugin._overridden[baseclass] of the defaultdict(list)
OverriddenOf(overridden, baseclass) ==
    IF baseclass \in DOMAIN overridden THEN overridden[baseclass]
    ELSE << >>

\* set_baseclass keeping the class that was set first
set_baseclass_first_kept(ss, cls, baseclass, abstract) ==
    IF abstract THEN ss
    ELSE IF baseclass \in DOMAIN ss._subclass
         THEN [ss EXCEPT !._overridden =
                  SetItem(@, baseclass,
                          Append(OverriddenOf(@, baseclass), cls))]
         ELSE [ss EXCEPT !._subclass = SetItem(@, baseclass, cls)]

\* cls.set_baseclass(baseclass), called by baseclass.__init_subclass__(cls)
\* when class cls is defined; abstract is inspect.isabstract(cls)
set_baseclass(ss, cls, baseclass, abstract) ==
    IF abstract THEN ss
    ELSE LET overridden ==
                 IF baseclass \in DOMAIN ss._subclass
                 THEN SetItem(ss._overridden, baseclass,
                              Append(OverriddenOf(ss._overridden,
                                                  baseclass),
                                     ss._subclass[baseclass]))
                 ELSE ss._overridden
         IN  [ss EXCEPT !._overridden = overridden,
                        !._subclass = SetItem(@, baseclass, cls)]

\* The instances being kept under the abstract base class
InstanceKey_baseclass(cls, subclass) == cls

\* Line 77: the key of the instance in SubclassPlugin._instance is the
\* concrete subclass
InstanceKey(cls, subclass) == subclass

\* cls.get_instance(): the new state and the value returned.  The argument
\* subclass() of setdefault is evaluated before setdefault is called, so
\* the constructor runs in every call that finds a subclass
get_instance(ss, cls) ==
    IF cls \in DOMAIN ss._subclass
    THEN LET subclass == ss._subclass[cls]
             key == InstanceKey(cls, subclass)
             new == <<subclass, ss.constructed[subclass] + 1>>
             made == [ss EXCEPT !.constructed[subclass] = @ + 1]
         IN  IF key \in DOMAIN ss._instance
             THEN [state |-> made, ret |-> ss._instance[key]]
             ELSE [state |-> [made EXCEPT !._instance =
                                 SetItem(@, key, new)],
                   ret |-> new]
    ELSE [state |-> ss, ret |-> NoInstance]

\* The annotated names of the host module, in the order of their
\* annotation, and their annotations: Optional["C"] or "C"
SlotNames == <<"protected_corpora_getter", "authorizer", "getter">>

SlotAnnotation(name) ==
    CASE name = "protected_corpora_getter" ->
            [origin |-> "Union", cls |-> "ProtectedCorporaGetter"]
      [] name = "authorizer" ->
            [origin |-> "Union", cls |-> "BaseAuthorizer"]
      [] name = "getter" ->
            [origin |-> "None", cls |-> "ProtectedCorporaGetter"]

\* The condition of line 146 holding for every value
NeedsValue_always(value, override) == TRUE

\* getattr(module, name, None) is None or override
NeedsValue(value, override) == value = NoInstance \/ override

\* One iteration of the loop over the annotations.  For Optional["C"] the
\* first argument of the Union is C and test_and_set_value returns True
\* for it; for a class that is not generic typing.get_origin returns None,
\* issubclass(None, SubclassPlugin) raises TypeError and nothing is set
RegisterSlot(rs, name, override) ==
    LET annot == SlotAnnotation(name)
    IN  IF NeedsValue(rs.slots[name], override) /\ annot.origin = "Union"
        THEN LET res == get_instance(rs.state, annot.cls)
             IN  [state |-> res.state,
                  slots |-> IF res.ret # NoInstance
                            THEN [rs.slots EXCEPT ![name] = res.ret]
                            ELSE rs.slots]
        ELSE rs

RECURSIVE RegisterSlots(_, _, _)
RegisterSlots(rs, names, override) ==
    IF names = << >> THEN rs
    ELSE RegisterSlots(RegisterSlot(rs, Head(names), override),
                       Tail(names), override)

\* register_subclass_plugins(module, override)
register_subclass_plugins(ss, module_slots, override) ==
    RegisterSlots([state |-> ss, slots |-> module_slots], SlotNames,
                  override)

NoOperation ==
    [op |-> "None", cls |-> "None", override |-> FALSE,
     ret |-> NoInstance, n |-> 0]

\* A plugin module defines the class cls(BaseOf(cls))
DefineSubclass ==
    /\ pc = "idle"
    /\ \E cls \in SubClasses : \E abstract \in BOOLEAN :
          /\ \A i \in 1..Len(defined) : defined[i].cls # cls
          /\ defined' = Append(defined, [cls |-> cls, abstract |-> abstract])
          /\ SetSubclassState(set_baseclass(SubclassState, cls, BaseOf(cls),
                                            abstract))
    /\ UNCHANGED <<configVars, loadVars, callbackVars, routeVars, extVars, slots,
                   got>>

\* The host calls cls.get_instance() for an abstract base class
GetInstance ==
    /\ pc = "idle"
    /\ got.n < MaxCalls
    /\ \E cls \in BaseClasses :
          LET res == get_instance(SubclassState, cls)
          IN  /\ SetSubclassState(res.state)
              /\ got' = [op |-> "get_instance", cls |-> cls,
                         override |-> FALSE, ret |-> res.ret,
                         n |-> got.n + 1]
    /\ UNCHANGED <<configVars, loadVars, callbackVars, routeVars, extVars, slots,
                   defined>>

\* The host calls register_subclass_plugins for its module
RegisterSubclassPlugins ==
    /\ pc = "idle"
    /\ got.n < MaxCalls
    /\ \E override \in BOOLEAN :
          LET res == register_subclass_plugins(SubclassState, slots,
                                               override)
          IN  /\ SetSubclassState(res.state)
              /\ slots' = res.slots
              /\ got' = [op |-> "register_subclass_plugins",
                         cls |-> "None", override |-> override,
                         ret |-> NoInstance, n |-> got.n + 1]
    /\ UNCHANGED <<configVars, loadVars, callbackVars, routeVars, extVars, defined>>

InitSubclassVars ==
    /\ _subclass = << >>
    /\ _overridden = << >>
    /\ _instance = << >>
    /\ defined = << >>
    /\ constructed = [cls \in SubClasses |-> 0]
    /\ slots = [name \in {SlotNames[k] : k \in 1..Len(SlotNames)} |->
                    NoInstance]
    /\ got = NoOperation

(***************************************************************************)
(* _endpointplugin.py: endpoint decorators and route declarations          *)
(***************************************************************************)
\* The functions the host makes available as endpoint decorators, by their
\* __name__
DecoratorNames == {"main_handler", "prevent_timeout", "use_custom_headers"}

\* The extra_decorators a route declaration can list: topmost first,
\* without repetition
MaxExtra == 2

ExtraDecorators ==
    {e \in UNION {[1..n -> DecoratorNames \ {"main_handler"}] :
                    n \in 0..MaxExtra} :
        \A i, j \in DOMAIN e : e[i] = e[j] => i = j}

\* The plugin module that declares routes in SpecRoute and the most routes
\* it declares
DeclaringPlugins == {"b"}

MaxDeclared == 1

\* The configurations given to the plugin: RENAME_ROUTES a format string,
\* a dict, a function or None, or no RENAME_ROUTES at all
RouteConfs ==
    {[k \in {"RENAME_ROUTES"} |-> v] :
        v \in {"format", "dict", "callable", None}}
    \cup {[k \in {"A"} |-> "9"]}

Reverse(seq) == [i \in 1..Len(seq) |-> seq[Len(seq) + 1 - i]]

\* The decorators in the order of the loop with the extra decorators
\* applied in the order in which they are listed
ApplicationOrder_as_listed(extra_decorators) ==
    extra_decorators \o <<"main_handler">>

\* reversed(["main_handler"] + list(extra_decorators))
ApplicationOrder(extra_decorators) ==
    Reverse(<<"main_handler">> \o extra_decorators)

\* The condition of line 107 holding for every name
IsAvailable_always(decorator_name, decorators) == TRUE

\* decorator_name in self._endpoint_decorators
IsAvailable(decorator_name, decorators) == decorator_name \in decorators

\* The loop of lines 105-110: a handler is the sequence of the names of
\* its wrappers, the outermost first; the innermost is the function wrapper
\* of line 102, which calls func
RECURSIVE Wrap(_, _, _)
Wrap(wrapper, names, decorators) ==
    IF names = << >> THEN wrapper
    ELSE Wrap(IF IsAvailable(Head(names), decorators)
              THEN <<Head(names)>> \o wrapper
              ELSE wrapper,
              Tail(names), decorators)

\* route(rule, extra_decorators=...)(func): the url rule and the view
\* function added to the blueprint of the plugin, with the arguments of the
\* declaration and the decorators available when it was made
decorator(configs, decorators, plugin_name, rule, extra_decorators, func) ==
    [rule |-> EffectiveRule(configs, plugin_name, rule),
     endpoint |-> func,
     view_func |-> Wrap(<<"wrapper">>, ApplicationOrder(extra_decorators),
                        decorators),
     declared_rule |-> rule,
     extra_decorators |-> extra_decorators,
     available |-> decorators]

\* add_endpoint_decorators(decor_list)
add_endpoint_decorators(decorators, decor_list) ==
    decorators \cup decor_list

\* set_endpoint_decorators(decor_list)
set_endpoint_decorators(decorators, decor_list) ==
    add_endpoint_decorators({}, decor_list)

\* The plugin gets a configuration before its module is imported
ConfigureRoutes ==
    /\ pc = "idle"
    /\ \E plugin \in DeclaringPlugins : \E config \in RouteConfs :
          /\ plugin \notin DOMAIN plugin_configs
          /\ SetConfigState(add_plugin_config(ConfigState, plugin, config))
    /\ UNCHANGED <<loadVars, callbackVars, subclassVars, extVars, routeVars>>

\* The plugin module constructs its EndpointPlugin
NewEndpointPlugin ==
    /\ pc = "idle"
    /\ \E plugin \in DeclaringPlugins :
          /\ plugin \notin DOMAIN blueprints
          /\ SetConfigState(EndpointPluginInit(ConfigState, plugin))
          /\ blueprints' = SetItem(blueprints, plugin, << >>)
    /\ UNCHANGED <<loadVars, callbackVars, subclassVars, extVars,
                   _endpoint_decorators>>

\* The plugin module declares a route: @plugin.route(rule, ...) def func
Route ==
    /\ pc = "idle"
    /\ \E plugin \in DOMAIN blueprints : \E name \in RuleNames :
       \E extra_decorators \in ExtraDecorators :
          /\ Len(blueprints[plugin]) < MaxDeclared
          /\ blueprints' =
                [blueprints EXCEPT ![plugin] =
                    Append(@, decorator(plugin_configs,
                                        _endpoint_decorators, plugin,
                                        <<"/", name>>, extra_decorators,
                                        <<plugin, Len(@) + 1>>))]
    /\ UNCHANGED <<configVars, loadVars, callbackVars, subclassVars, extVars,
                   _endpoint_decorators>>

\* The host calls EndpointPlugin.add_endpoint_decorators(decor_list)
AddEndpointDecorators ==
    /\ pc = "idle"
    /\ \E decor_list \in SUBSET DecoratorNames :
          _endpoint_decorators' =
              add_endpoint_decorators(_endpoint_decorators, decor_list)
    /\ UNCHANGED <<configVars, loadVars, callbackVars, subclassVars, extVars,
                   blueprints>>

\* The host calls EndpointPlugin.set_endpoint_decorators(decor_list)
SetEndpointDecorators ==
    /\ pc = "idle"
    /\ \E decor_list \in SUBSET DecoratorNames :
          _endpoint_decorators' =
              set_endpoint_decorators(_endpoint_decorators, decor_list)
    /\ UNCHANGED <<configVars, loadVars, callbackVars, subclassVars, extVars,
                   blueprints>>

\* A function is decorated with @EndpointPlugin.endpoint_decorator
EndpointDecorator ==
    /\ pc = "idle"
    /\ \E func \in DecoratorNames :
          _endpoint_decorators' =
              add_endpoint_decorators(_endpoint_decorators, {func})
    /\ UNCHANGED <<configVars, loadVars, callbackVars, subclassVars, extVars,
                   blueprints>>

InitRouteVars ==
    /\ _endpoint_decorators = {}
    /\ blueprints = << >>

(***************************************************************************)
(* _pluginloader.py: load_plugins                                          *)
(***************************************************************************)
\* pluginlibconf["PACKAGES"]: the plugin packages and "" for top-level
\* modules
PACKAGES == <<"plugins", "korpplugins", "">>

\* pluginlibconf["SEARCH_PATH"]
SEARCH_PATH == <<"/opt/korp-plugins">>

\* Plugin names containing a dot: "korpplugins.c" is the fully qualified
\* name of the module c of the package korpplugins
DottedNames == {"korpplugins.c"}

Qualified == [name \in DottedNames |-> <<"korpplugins", "c">>]

\* The module a plugin is installed as, when it is installed
ModuleOf(plugin) ==
    IF plugin \in TopLevelPlugins THEN <<"", plugin>>
    ELSE <<"korpplugins", plugin>>

\* The plugin modules that call get_plugin_config with defaults, and the
\* defaults they pass
ConfigUsers == {"a"}

ModuleDefaults == ConfOf("defaults", {"A", "B"})

\* The plugin modules that construct an EndpointPlugin and declare routes
RoutePlugins == {"a", "b"}

\* The configurations a plugin-list entry of SpecLoad can carry
LoadEntryConfs == {ConfOf("entry", {"RENAME_ROUTES"})}

ListEntries(plugin) ==
    {<<plugin>>} \cup
    (IF plugin \in EntryPlugins
     THEN {<<plugin, config>> : config \in LoadEntryConfs} ELSE {})

\* The plugin lists: every order of the plugin names, each entry a bare
\* name or a pair (name, config)
PluginLists ==
    {l \in [1..Cardinality(PluginNames) ->
                UNION {ListEntries(plugin) : plugin \in PluginNames}] :
        \A i, j \in DOMAIN l : l[i][1] = l[j][1] => i = j}

NoException == [type |-> "None", names |-> << >>]

NotFound == << >>

\* Line 131: module_name = pkg + "." + plugin if pkg else plugin.  A module
\* name is the pair of its package and the rest; the bare dotted name is
\* the module it qualifies
module_name(pkg, plugin) ==
    IF pkg = "" /\ plugin \in DottedNames THEN Qualified[plugin]
    ELSE <<pkg, plugin>>

\* Line 130 with the packages tried before the bare name
Candidates_packages_first(plugin) ==
    LET pkgs == PACKAGES \o
                    (IF plugin \in DottedNames THEN <<"">> ELSE << >>)
    IN  [i \in 1..Len(pkgs) |-> module_name(pkgs[i], plugin)]

\* The module names _find_plugin tries, in order
Candidates(plugin) ==
    LET pkgs == (IF plugin \in DottedNames THEN <<"">> ELSE << >>)
                    \o PACKAGES
    IN  [i \in 1..Len(pkgs) |-> module_name(pkgs[i], plugin)]

RECURSIVE FirstInstalled(_)
FirstInstalled(module_names) ==
    IF module_names = << >> THEN NotFound
    ELSE IF Head(module_names) \in installed THEN Head(module_names)
         ELSE FirstInstalled(Tail(module_names))

\* The module imported for plugin, NotFound for ModuleNotFoundError
_find_plugin(plugin) == FirstInstalled(Candidates(plugin))

\* Lines 129-137: the list not_found when the loop ends or returns
RECURSIVE not_found(_)
not_found(module_names) ==
    IF module_names = << >> THEN << >>
    ELSE IF Head(module_names) \in installed THEN << >>
         ELSE <<Head(module_names)>> \o not_found(Tail(module_names))

\* Lines 138-144: the exception _find_plugin raises, whose message names
\* the modules of not_found
FindException(plugin) ==
    IF _find_plugin(plugin) # NotFound THEN NoException
    ELSE [type |-> "ModuleNotFoundError",
          names |-> not_found(Candidates(plugin))]

\* The plugin names _find_plugin is called with
FindNames == {"a", "c"} \cup DottedNames

\* The modules that can be installed for them
FindModules ==
    UNION {{Candidates(plugin)[i] : i \in 1..Len(Candidates(plugin))} :
           plugin \in FindNames}

\* The modules a plugin name of the model can be imported as
AllModules == FindModules \cup {ModuleOf(plugin) : plugin \in PluginNames}

\* The names of the variables of an info module, in the order of
\* dir(info_module), and the dictionary keys str.lower makes of them
InfoNames == <<"NAME", "Name", "VERSION">>

lower == [name \in {"NAME", "Name", "VERSION"} |->
             IF name = "VERSION" THEN "version" ELSE "name"]

\* The keys of the PLUGIN_INFO a plugin module defines
InfoKeys == {"name", "date", "module"}

\* An info module assigns its own value to each of its variables, and
\* PLUGIN_INFO its own value to each of its keys
InfoValue(name) == <<"info", name>>

PluginInfoValue(key) == <<"PLUGIN_INFO", key>>

EmptyInfo == [key \in {} |-> << >>]

NoInfoModule == [exists |-> FALSE, names |-> {}]

NoPluginInfo == [defined |-> FALSE, value |-> EmptyInfo]

InfoModules ==
    {NoInfoModule} \cup
    {[exists |-> TRUE, names |-> names] :
        names \in SUBSET {InfoNames[k] : k \in 1..Len(InfoNames)}}

PluginInfos ==
    {NoPluginInfo} \cup
    {[defined |-> TRUE, value |-> [key \in keys |-> PluginInfoValue(key)]] :
        keys \in SUBSET InfoKeys}

\* Lines 165-166: dict((name.lower(), getattr(info_module, name)) for name
\* in dir(info_module) ...): of two names with one lower-cased form the
\* later one of dir() gives the value
InfoDict(names) ==
    LET used == {k \in 1..Len(InfoNames) : InfoNames[k] \in names}
        last(key) == CHOOSE k \in used :
                        /\ lower[InfoNames[k]] = key
                        /\ \A j \in used : lower[InfoNames[j]] = key => j <= k
    IN  [key \in {lower[InfoNames[k]] : k \in used} |->
            InfoValue(InfoNames[last(key)])]

\* dict.update: the values of other replace those of d
Update(d, other) ==
    [key \in DOMAIN d \cup DOMAIN other |->
        IF key \in DOMAIN other THEN other[key] ELSE d[key]]

\* The merge with the values of the info module replacing PLUGIN_INFO's
MergedInfo_info_wins(info_module, plugin_info) ==
    LET info == IF info_module.exists THEN InfoDict(info_module.names)
                ELSE EmptyInfo
    IN  Update(IF plugin_info.defined THEN plugin_info.value ELSE EmptyInfo,
               info)

\* Lines 161-170: the dictionary _set_plugin_info stores in
\* module.PLUGIN_INFO
MergedInfo(info_module, plugin_info) ==
    LET info == IF info_module.exists THEN InfoDict(info_module.names)
                ELSE EmptyInfo
    IN  Update(info,
               IF plugin_info.defined THEN plugin_info.value ELSE EmptyInfo)

\* _set_plugin_info(module): the new value of the attribute PLUGIN_INFO of
\* every module
_set_plugin_info(attrs, module) ==
    [attrs EXCEPT ![module] =
        [defined |-> TRUE,
         value |-> MergedInfo(info_modules[module], attrs[module])]]

\* Lines 72-76: loaded_plugins[plugin] = {"module": module} updated with
\* module.PLUGIN_INFO
Descriptor(module, plugin_info) ==
    LET d == [key \in {"module"} |-> module]
    IN  IF plugin_info.defined THEN Update(d, plugin_info.value) ELSE d

NoFind ==
    [plugin |-> "None", module |-> NotFound, not_found |-> << >>,
     raised |-> NoException]

\* _find_plugin(plugin) is called
FindPlugin ==
    /\ pc = "idle"
    /\ \E plugin \in FindNames :
          /\ found' = [plugin |-> plugin, module |-> _find_plugin(plugin),
                       not_found |-> not_found(Candidates(plugin)),
                       raised |-> FindException(plugin)]
          /\ PLUGIN_INFO' = IF _find_plugin(plugin) # NotFound
                            THEN _set_plugin_info(PLUGIN_INFO,
                                                  _find_plugin(plugin))
                            ELSE PLUGIN_INFO
    /\ UNCHANGED <<configVars, loadVars, callbackVars, subclassVars,
                   routeVars, info_modules, declared_info, descriptors,
                   listing, requestVars, dbVars, formatVars, laterVars>>

InitFindVars == found = NoFind

\* The top-level code of the plugin module, run by the import
ImportModule(st, plugin) ==
    LET st2 == IF plugin \in ConfigUsers
               THEN get_plugin_config(st, plugin, ModuleDefaults,
                                      EmptyConf, EmptyConf)
               ELSE st
    IN  IF plugin \in RoutePlugins
        THEN EndpointPluginInit(st2, plugin)
        ELSE st2

\* loaded_plugins[plugin] = ... putting the new key first
SetLoaded_first(loaded, plugin) ==
    IF \E i \in 1..Len(loaded) : loaded[i] = plugin THEN loaded
    ELSE <<plugin>> \o loaded

\* loaded_plugins[plugin] = {"module": module}: a new key of an OrderedDict
\* goes last, an existing key keeps its place
SetLoaded(loaded, plugin) ==
    IF \E i \in 1..Len(loaded) : loaded[i] = plugin THEN loaded
    ELSE Append(loaded, plugin)

\* The not-found policy going on to the next entry for every value
ContinuesAfterNotFound_always(policy) == TRUE

\* Whether the loop goes on to the next entry after ModuleNotFoundError
ContinuesAfterNotFound(policy) == policy \in {"ignore", "warn"}

\* What the except clause prints to stderr
NotFoundOutput(policy, plugin) ==
    IF policy = "ignore" THEN << >>
    ELSE IF policy = "warn"
         THEN << [kind |-> "Warning: Plugin not found", subject |-> <<plugin>>,
                  used |-> << >>, discarded |-> << >>] >>
         ELSE << [kind |-> "Plugin not found", subject |-> <<plugin>>,
                  used |-> << >>, discarded |-> << >>] >>

\* saved_sys_path = sys.path binds a second name to the same list object
saved_sys_path == sys_path

\* Lines 56-59: load_plugins is called
BeginLoad ==
    /\ pc = "start"
    /\ pc' = "loop"
    /\ sys_path' = sys_path \o SEARCH_PATH
    /\ UNCHANGED <<configVars, registered, plugin_list, idx, installed,
                   module_routes, HANDLE_NOT_FOUND, HANDLE_DUPLICATE_ROUTES,
                   loaded_plugins, _rules, _rules_by_endpoint, _matcher,
                   _remap, stderr, raised, arbitrations, matched>>
    /\ UNCHANGED <<callbackVars, subclassVars, extVars, routeVars>>

\* Lines 60-113: one iteration of the loop over plugin_list
LoadEntry ==
    /\ pc = "loop"
    /\ idx <= Len(plugin_list)
    /\ LET entry == plugin_list[idx]
           plugin == entry[1]
           st1 == IF Len(entry) > 1
                  THEN add_plugin_config(ConfigState, plugin, entry[2])
                  ELSE ConfigState
       IN  IF _find_plugin(plugin) # NotFound
           THEN LET st2 == ImportModule(st1, plugin)
                    rules == BlueprintRules(st2.configs, plugin,
                                            module_routes[plugin])
                    st3 == get_plugin_config(st2, plugin, EmptyConf,
                                             EmptyConf, EmptyConf)
                IN  /\ SetConfigState(st3)
                    /\ loaded_plugins' = SetLoaded(loaded_plugins, plugin)
                    /\ SetUrlMap(MapAddAll(UrlMap, rules))
                    /\ registered' = registered \o rules
                    /\ SetCallbackState(ImportCallbacks(CallbackState,
                                                        plugin))
                    /\ PLUGIN_INFO' =
                          _set_plugin_info(PLUGIN_INFO, _find_plugin(plugin))
                    /\ descriptors' =
                          SetItem(descriptors, plugin,
                                  Descriptor(_find_plugin(plugin),
                                             PLUGIN_INFO'[_find_plugin(plugin)]))
                    /\ idx' = idx + 1
                    /\ UNCHANGED <<pc, stderr, raised>>
           ELSE /\ SetConfigState(st1)
                /\ stderr' = stderr \o NotFoundOutput(HANDLE_NOT_FOUND, plugin)
                /\ IF ContinuesAfterNotFound(HANDLE_NOT_FOUND)
                   THEN /\ idx' = idx + 1
                        /\ UNCHANGED <<pc, raised>>
                   ELSE /\ pc' = "raised"
                        /\ raised' = [type |-> "ModuleNotFoundError",
                                      names |-> Candidates(plugin)]
                        /\ UNCHANGED idx
                /\ UNCHANGED <<loaded_plugins, _rules, _rules_by_endpoint,
                               _matcher, _remap, registered, hook_points,
                               callback_instances, PLUGIN_INFO, descriptors>>
    /\ UNCHANGED <<plugin_list, installed, module_routes, HANDLE_NOT_FOUND,
                   HANDLE_DUPLICATE_ROUTES, sys_path, arbitrations, matched>>
    /\ UNCHANGED <<dispatch, subclassVars, routeVars, findVars,
                   info_modules, declared_info, listing, requestVars, dbVars, formatVars, laterVars>>

\* get_loaded_plugins(names_only): the list returned
get_loaded_plugins(names_only) ==
    IF names_only THEN loaded_plugins
    ELSE [i \in 1..Len(loaded_plugins) |->
            LET info == descriptors[loaded_plugins[i]]
            IN  [name |-> loaded_plugins[i],
                 info |-> [key \in DOMAIN info \ {"module"} |-> info[key]]]]

NoListing == [names_only |-> FALSE, ret |-> << >>, n |-> 0]

\* The host calls get_loaded_plugins, for the result of /info
GetLoadedPlugins ==
    /\ pc = "done"
    /\ listing.n < MaxCalls
    /\ \E names_only \in BOOLEAN :
          listing' = [names_only |-> names_only,
                      ret |-> get_loaded_plugins(names_only),
                      n |-> listing.n + 1]
    /\ UNCHANGED <<configVars, loadVars, callbackVars, subclassVars,
                   routeVars, findVars, info_modules, PLUGIN_INFO,
                   declared_info, descriptors, requestVars, dbVars, formatVars, laterVars>>

InitInfoVars ==
    /\ info_modules = [module \in AllModules |-> NoInfoModule]
    /\ PLUGIN_INFO = [module \in AllModules |-> NoPluginInfo]
    /\ declared_info = PLUGIN_INFO
    /\ descriptors = << >>
    /\ listing = NoListing

\* The statements after the loop being reached at any entry
LoopEnded_at_any_entry(i, entries) == TRUE

\* Line 60: the for loop ends when every entry of plugin_list has had its
\* iteration
LoopEnded(i, entries) == i > Len(entries)

\* Lines 114-115: after the loop
FinishLoad ==
    /\ pc = "loop"
    /\ LoopEnded(idx, plugin_list)
    /\ sys_path' = saved_sys_path
    /\ arbitrations' = arbitrations + 1
    /\ LET res == _handle_duplicate_routing_rules(UrlMap,
                                                  HANDLE_DUPLICATE_ROUTES)
       IN  /\ SetUrlMap(res.map)
           /\ stderr' = stderr \o res.out
           /\ IF res.raise
              THEN /\ pc' = "raised"
                   \* ValueError("Multiple endpoints for a routing rule")
                   /\ raised' = [type |-> "ValueError", names |-> << >>]
              ELSE /\ pc' = "done"
                   /\ UNCHANGED raised
    /\ UNCHANGED <<configVars, registered, plugin_list, idx, installed,
                   module_routes, HANDLE_NOT_FOUND, HANDLE_DUPLICATE_ROUTES,
                   loaded_plugins, matched>>
    /\ UNCHANGED <<callbackVars, subclassVars, extVars, routeVars>>

\* The paths a request can ask for
RequestPaths == {<<"/", name>> : name \in RuleNames}

NoMatch == [path |-> << >>, endpoint |-> <<"None", 0>>]

\* The host serves a request after load_plugins has returned: Flask binds
\* app.url_map, which brings the map up to date (Map.update() clears
\* _remap), and dispatches to the endpoint of the first matching rule
MatchRequest ==
    /\ pc = "done"
    /\ \E path \in RequestPaths :
          matched' = [path |-> path, endpoint |-> MatchEndpoint(path)]
    /\ _remap' = FALSE
    /\ UNCHANGED <<configVars, registered, plugin_list, idx, installed,
                   module_routes, HANDLE_NOT_FOUND, HANDLE_DUPLICATE_ROUTES,
                   loaded_plugins, _rules, _rules_by_endpoint, _matcher,
                   sys_path, stderr, raised, arbitrations, pc>>
    /\ UNCHANGED <<callbackVars, subclassVars, extVars, routeVars>>

(***************************************************************************)
(* The configuration of one plugin over the life of the process: the      *)
(* plugin-list entry, the code of the plugin module (get_plugin_config,   *)
(* EndpointPlugin(), route declarations), the call load_plugins makes for *)
(* the plugin, and further runs of load_plugins                           *)
(***************************************************************************)
\* The plugin: in a plugin package, with a section in the Korp
\* configuration
ProcessPlugin == "a"

\* The contents a configuration source can have
ProcessConfs(src) ==
    {ConfOf(src, keys) : keys \in SUBSET {"A", "RENAME_ROUTES"}}

\* The sources of the configuration of the plugin: the config of its
\* plugin-list entry (empty for a bare name), given as a dict or as a
\* namespace, the section of the Korp configuration, the config module and
\* the defaults the plugin declares
Deployments ==
    {d \in [entry : ProcessConfs("entry"), entry_is_dict : BOOLEAN,
            section : ProcessConfs("section"),
            module : ProcessConfs("module"),
            defaults : ProcessConfs("defaults")] :
        d.entry = EmptyConf => d.entry_is_dict}

NoDeployment ==
    [entry |-> EmptyConf, entry_is_dict |-> TRUE, section |-> EmptyConf,
     module |-> EmptyConf, defaults |-> EmptyConf]

\* _configutil.py lines 74-90: the confs as _make_config leaves them.
\* default_conf is the dict of the last non-empty conf itself (line 87), so
\* the setdefault of line 90 writes the keys of always_add to that conf
ConfsAfter(configs, always_add) ==
    LET di == DefaultIndex(configs)
    IN  [i \in 1..Len(configs) |->
            IF i = di THEN default_conf(configs, always_add)
            ELSE configs[i]]

\* Whether plugin_configs holds the object of the plugin-list entry:
\* add_plugin_config keeps a namespace and copies a dict (lines 138-139)
HoldsEntryObject(configs, objects) ==
    /\ ~objects.entry_is_dict
    /\ ProcessPlugin \in DOMAIN configs
    /\ configs[ProcessPlugin] = objects.entry

\* The source objects after get_plugin_config(defaults) in the state st
SourcesAfter(st, objects, defaults) ==
    IF ~NeedsExpansion(st.expanded, ProcessPlugin) THEN objects
    ELSE LET after ==
                 ConfsAfter(ConfigSources(st.configs, ProcessPlugin,
                                          defaults, objects.section,
                                          objects.module),
                            AlwaysAdd)
         IN  [entry |-> IF HoldsEntryObject(st.configs, objects)
                        THEN after[1] ELSE objects.entry,
              entry_is_dict |-> objects.entry_is_dict,
              section |-> after[2],
              module |-> after[3],
              defaults |-> IF defaults = objects.defaults THEN after[4]
                           ELSE objects.defaults]

\* The entry of the plugin has been processed by the running load_plugins
EntryProcessed ==
    deployment.entry = EmptyConf \/ ProcessPlugin \in DOMAIN plugin_configs

\* No code of the plugin module has run
ModuleNotStarted ==
    /\ ProcessPlugin \notin DOMAIN blueprints
    /\ ProcessPlugin \notin DOMAIN first_call

\* load_plugins has loaded the plugin
IsLoaded(loaded) == \E i \in 1..Len(loaded) : loaded[i] = ProcessPlugin

\* _pluginloader.py lines 62-64: load_plugins, in its first run or in a
\* later one, attaches the config of the entry to the plugin
ProcessListEntry ==
    /\ pc = "idle"
    /\ deployment.entry # EmptyConf
    /\ ModuleNotStarted \/ IsLoaded(loaded_plugins)
    /\ SetConfigState(add_plugin_config(ConfigState, ProcessPlugin,
                                        source_objects.entry))
    /\ UNCHANGED <<loadVars, callbackVars, subclassVars, routeVars,
                   findVars, infoVars, requestVars, dbVars, formatVars,
                   threadVars, methodVars>>
    /\ UNCHANGED processVars

\* The plugin calls get_plugin_config with the defaults it declares
PluginGetsConfig ==
    /\ pc = "idle"
    /\ EntryProcessed
    /\ SetConfigState(get_plugin_config(ConfigState, ProcessPlugin,
                                        source_objects.defaults,
                                        source_objects.section,
                                        source_objects.module))
    /\ source_objects' = SourcesAfter(ConfigState, source_objects,
                                      source_objects.defaults)
    /\ UNCHANGED deployment
    /\ UNCHANGED <<loadVars, callbackVars, subclassVars, routeVars,
                   findVars, infoVars, requestVars, dbVars, formatVars,
                   threadVars, methodVars>>

\* The plugin module constructs its EndpointPlugin while it is imported
ConstructEndpointPlugin ==
    /\ pc = "idle"
    /\ EntryProcessed
    /\ ~IsLoaded(loaded_plugins)
    /\ ProcessPlugin \notin DOMAIN blueprints
    /\ SetConfigState(EndpointPluginInit(ConfigState, ProcessPlugin))
    /\ blueprints' = SetItem(blueprints, ProcessPlugin, << >>)
    /\ UNCHANGED _endpoint_decorators
    /\ UNCHANGED processVars
    /\ UNCHANGED <<loadVars, callbackVars, subclassVars,
                   findVars, infoVars, requestVars, dbVars, formatVars,
                   threadVars, methodVars>>

\* The plugin module declares the route "/x" while it is imported
DeclareRoute ==
    /\ pc = "idle"
    /\ ProcessPlugin \in DOMAIN blueprints
    /\ ~IsLoaded(loaded_plugins)
    /\ Len(blueprints[ProcessPlugin]) < MaxDeclared
    /\ blueprints' =
          [blueprints EXCEPT ![ProcessPlugin] =
              Append(@, decorator(plugin_configs, _endpoint_decorators,
                                  ProcessPlugin, <<"/", "x">>, << >>,
                                  <<ProcessPlugin, Len(@) + 1>>))]
    /\ UNCHANGED _endpoint_decorators
    /\ UNCHANGED processVars
    /\ UNCHANGED <<configVars, loadVars, callbackVars, subclassVars,
                   findVars, infoVars, requestVars, dbVars, formatVars,
                   threadVars, methodVars>>

\* _pluginloader.py lines 66-72: load_plugins has imported the module of
\* the plugin, calls get_plugin_config for it without defaults and records
\* the plugin in loaded_plugins
LoaderGetsConfig ==
    /\ pc = "idle"
    /\ EntryProcessed
    /\ SetConfigState(get_plugin_config(ConfigState, ProcessPlugin,
                                        EmptyConf, source_objects.section,
                                        source_objects.module))
    /\ source_objects' = SourcesAfter(ConfigState, source_objects, EmptyConf)
    /\ loaded_plugins' = SetLoaded(loaded_plugins, ProcessPlugin)
    /\ UNCHANGED deployment
    /\ UNCHANGED <<registered, pc, plugin_list, idx, installed,
                   module_routes, HANDLE_NOT_FOUND, HANDLE_DUPLICATE_ROUTES,
                   _rules, _rules_by_endpoint, _matcher, _remap, sys_path,
                   stderr, raised, arbitrations, matched>>
    /\ UNCHANGED <<callbackVars, subclassVars, routeVars,
                   findVars, infoVars, requestVars, dbVars, formatVars,
                   threadVars, methodVars>>

InitProcessVars ==
    /\ deployment = NoDeployment
    /\ source_objects = NoDeployment

(***************************************************************************)
(* get_instance called by request threads.  A call is three steps of its   *)
(* thread, between which the other threads can run: reading                *)
(* SubclassPlugin._subclass (line 75), evaluating the argument subclass()  *)
(* of setdefault, and the call of dict.setdefault (line 77), which is one  *)
(* step: the keys are class objects, hashed and compared by the            *)
(* interpreter without running Python code.                                *)
(***************************************************************************)
\* The request threads
Threads == {1, 2}

\* The most get_instance calls of one thread
MaxThreadCalls == 2

IdleThread(calls) ==
    [pc |-> "idle", cls |-> "None", subclass |-> "None",
     new |-> NoInstance, ret |-> NoInstance, calls |-> calls]

\* dict.setdefault replaced by an assignment that returns the new value
SetDefault_assign(d, key, value) ==
    [dict |-> SetItem(d, key, value), ret |-> value]

\* d.setdefault(key, value): the dict and the value returned
SetDefault(d, key, value) ==
    IF key \in DOMAIN d THEN [dict |-> d, ret |-> d[key]]
    ELSE [dict |-> SetItem(d, key, value), ret |-> value]

\* Line 75: subclass = SubclassPlugin._subclass.get(cls), and the return of
\* None of lines 78-79 when there is none
ThreadReadsSubclass(t) ==
    /\ pc = "idle"
    /\ threads[t].pc = "idle"
    /\ threads[t].calls < MaxThreadCalls
    /\ \E cls \in BaseClasses :
          IF cls \in DOMAIN _subclass
          THEN /\ threads' = [threads EXCEPT ![t].pc = "construct",
                                             ![t].cls = cls,
                                             ![t].subclass = _subclass[cls]]
               /\ UNCHANGED returned
          ELSE /\ threads' = [threads EXCEPT ![t] = IdleThread(@.calls + 1)]
               /\ returned' = returned \cup {<<cls, NoInstance>>}
    /\ UNCHANGED <<configVars, loadVars, callbackVars, subclassVars,
                   routeVars, findVars, infoVars, requestVars, dbVars,
                   formatVars, processVars, methodVars>>

\* Line 77: the argument subclass() is evaluated
ThreadConstructs(t) ==
    /\ pc = "idle"
    /\ threads[t].pc = "construct"
    /\ LET subclass == threads[t].subclass
       IN  /\ threads' = [threads EXCEPT
                             ![t].pc = "setdefault",
                             ![t].new = <<subclass,
                                          constructed[subclass] + 1>>]
           /\ constructed' = [constructed EXCEPT ![subclass] = @ + 1]
    /\ UNCHANGED <<_subclass, _overridden, _instance, defined, slots, got>>
    /\ UNCHANGED returned
    /\ UNCHANGED <<configVars, loadVars, callbackVars,
                   routeVars, findVars, infoVars, requestVars, dbVars,
                   formatVars, processVars, methodVars>>

\* Line 77: SubclassPlugin._instance.setdefault(subclass, ...) and the
\* return of its value
ThreadSetsDefault(t) ==
    /\ pc = "idle"
    /\ threads[t].pc = "setdefault"
    /\ LET res == SetDefault(_instance,
                             InstanceKey(threads[t].cls,
                                         threads[t].subclass),
                             threads[t].new)
       IN  /\ _instance' = res.dict
           /\ threads' = [threads EXCEPT
                             ![t] = [IdleThread(@.calls + 1)
                                        EXCEPT !.ret = res.ret]]
           /\ returned' = returned \cup {<<threads[t].cls, res.ret>>}
    /\ UNCHANGED <<_subclass, _overridden, constructed, defined, slots, got>>
    /\ UNCHANGED <<configVars, loadVars, callbackVars,
                   routeVars, findVars, infoVars, requestVars, dbVars,
                   formatVars, processVars, methodVars>>

InitThreadVars ==
    /\ threads = [t \in Threads |-> IdleThread(0)]
    /\ returned = {}

(***************************************************************************)
(* Rules with methods.  A rule of the routing table accepts the methods    *)
(* of its declaration (EndpointPlugin.route: ["GET", "POST"] when none are *)
(* given); the matcher of the url map goes on to the next rule with the    *)
(* path when the method of the request is not one of the rule's, and the   *)
(* request ends in 405 Method Not Allowed when no rule of the path has it. *)
(***************************************************************************)
Methods == {"GET", "POST"}

\* _endpointplugin.py lines 96-97: the methods of a route declared without
\* the option methods
DefaultMethods == {"GET", "POST"}

MethodSets == {{"GET"}, {"POST"}, DefaultMethods}

\* The rules registered when the loop of load_plugins has ended: one of the
\* host and two of plugin b
MethodRules ==
    {<<[rule |-> <<"/", "x">>, endpoint |-> <<"korp", 1>>, methods |-> m1],
       [rule |-> <<"/", n2>>, endpoint |-> <<"b", 1>>, methods |-> m2],
       [rule |-> <<"/", n3>>, endpoint |-> <<"b", 2>>, methods |-> m3]>> :
        m1 \in MethodSets, m2 \in MethodSets, m3 \in MethodSets,
        n2 \in RuleNames, n3 \in RuleNames}

\* The endpoint that serves a request: that of the first rule of the
\* matcher with the path that accepts the method
RECURSIVE MatchMethod(_, _, _, _)
MatchMethod(rules, path, method, have_match_for) ==
    IF rules = << >>
    THEN IF have_match_for THEN <<"405", 0>> ELSE <<"404", 0>>
    ELSE IF Head(rules).rule = path
         THEN IF method \in Head(rules).methods THEN Head(rules).endpoint
              ELSE MatchMethod(Tail(rules), path, method, TRUE)
         ELSE MatchMethod(Tail(rules), path, method, have_match_for)

NoServed ==
    [path |-> << >>, method |-> "None", endpoint |-> <<"None", 0>>, n |-> 0]

\* The app dispatches a request after load_plugins has returned
ServeRequest ==
    /\ pc = "done"
    /\ served.n < MaxCalls
    /\ \E path \in RequestPaths, method \in Methods :
          served' = [path |-> path, method |-> method,
                     endpoint |-> MatchMethod(_matcher, path, method, FALSE),
                     n |-> served.n + 1]
    /\ _remap' = FALSE
    /\ UNCHANGED <<configVars, registered, plugin_list, idx, installed,
                   module_routes, HANDLE_NOT_FOUND, HANDLE_DUPLICATE_ROUTES,
                   loaded_plugins, _rules, _rules_by_endpoint, _matcher,
                   sys_path, stderr, raised, arbitrations, pc, matched>>
    /\ UNCHANGED <<callbackVars, subclassVars, routeVars,
                   findVars, infoVars, requestVars, dbVars, formatVars,
                   processVars, threadVars>>

InitMethodVars == served = NoServed

(***************************************************************************)
(* Initial states and specifications                                       *)
(***************************************************************************)
InitConfigVars ==
    /\ plugin_configs = << >>
    /\ _plugin_configs_expanded = {}
    /\ call = NoCall
    /\ first_call = << >>

\* The Flask application with the routes of the host
InitApp ==
    /\ _rules = MapAddAll(EmptyMap, HostRules)._rules
    /\ _rules_by_endpoint = MapAddAll(EmptyMap, HostRules)._rules_by_endpoint
    /\ _matcher = MapAddAll(EmptyMap, HostRules)._matcher
    /\ _remap = MapAddAll(EmptyMap, HostRules)._remap
    /\ registered = HostRules
    /\ loaded_plugins = << >>
    /\ sys_path = <<"/usr/lib/python3">>
    /\ stderr = << >>
    /\ raised = NoException
    /\ arbitrations = 0
    /\ matched = NoMatch

\* The variables of the models of single plugins and of the process
InitLaterVars == InitProcessVars /\ InitThreadVars /\ InitMethodVars

\* load_plugins is not called, the variables a specification draws for
\* itself left out
InitIdleCore ==
    /\ pc = "idle"
    /\ plugin_list = << >>
    /\ idx = 1
    /\ installed = {}
    /\ module_routes = [plugin \in PluginNames |-> << >>]
    /\ HANDLE_NOT_FOUND = "warn"
    /\ HANDLE_DUPLICATE_ROUTES = "override,warn"
    /\ InitApp
    /\ InitCallbackVars
    /\ InitSubclassVars
    /\ InitRouteVars
    /\ InitFindVars
    /\ InitInfoVars
    /\ InitRequestVars
    /\ InitDbVars
    /\ InitFormatVars

\* load_plugins is not called
InitLoadIdle == InitIdleCore /\ InitLaterVars

\* SpecConfig: configuration resolution during one load of the plugins
InitConfig == InitConfigVars /\ InitLoadIdle

NextConfig ==
    \/ AddPluginConfig
    \/ ResolvePluginConfig
    \/ CachedPluginConfig

SpecConfig == InitConfig /\ [][NextConfig]_vars

\* SpecLoad: one run of load_plugins for every plugin list, set of
\* installed plugin modules, routes of the modules and policies
InitLoad ==
    /\ InitConfigVars
    /\ pc = "start"
    /\ plugin_list \in PluginLists
    /\ idx = 1
    /\ installed \in SUBSET {ModuleOf(plugin) : plugin \in PluginNames}
    /\ module_routes \in [PluginNames -> RouteSeqs]
    /\ \A plugin \in PluginNames :
          (plugin \notin RoutePlugins \/ ModuleOf(plugin) \notin installed)
              => module_routes[plugin] = << >>
    /\ HANDLE_NOT_FOUND \in {"ignore", "warn", "error"}
    /\ HANDLE_DUPLICATE_ROUTES \in
          {"override", "override,warn", "ignore", "warn", "error"}
    /\ InitApp
    /\ InitCallbackVars
    /\ InitSubclassVars
    /\ InitRouteVars
    /\ InitFindVars
    /\ InitInfoVars
    /\ InitRequestVars
    /\ InitDbVars
    /\ InitFormatVars
    /\ InitLaterVars

NextLoad ==
    \/ BeginLoad
    \/ LoadEntry
    \/ FinishLoad
    \/ MatchRequest

SpecLoad == InitLoad /\ [][NextLoad]_vars

\* SpecCallback: one run of load_plugins with the policies of config.py
\* for plugin modules without routes, and the dispatches of the host to
\* the hook points after it
InitCallback ==
    /\ InitLoad
    /\ module_routes = [plugin \in PluginNames |-> << >>]
    /\ HANDLE_NOT_FOUND = "warn"
    /\ HANDLE_DUPLICATE_ROUTES = "override,warn"

NextCallback ==
    \/ BeginLoad
    \/ LoadEntry
    \/ FinishLoad
    \/ FilterValue
    \/ RaiseEvent

SpecCallback == InitCallback /\ [][NextCallback]_vars

\* SpecSubclass: the definitions of capability classes by plugin modules
\* and the calls of the host, in any order
InitSubclass == InitConfig

NextSubclass ==
    \/ DefineSubclass
    \/ GetInstance
    \/ RegisterSubclassPlugins

SpecSubclass == InitSubclass /\ [][NextSubclass]_vars

\* SpecRoute: one plugin module that constructs an EndpointPlugin and
\* declares routes, and the host making endpoint decorators available
InitRoute == InitConfig

NextRoute ==
    \/ EndpointDecorator
    \/ AddEndpointDecorators
    \/ SetEndpointDecorators
    \/ ConfigureRoutes
    \/ NewEndpointPlugin
    \/ Route

SpecRoute == InitRoute /\ [][NextRoute]_vars

\* SpecFind: calls of _find_plugin for every set of installed modules
InitFind ==
    /\ InitConfigVars
    /\ pc = "idle"
    /\ plugin_list = << >>
    /\ idx = 1
    /\ installed \in SUBSET FindModules
    /\ module_routes = [plugin \in PluginNames |-> << >>]
    /\ HANDLE_NOT_FOUND = "warn"
    /\ HANDLE_DUPLICATE_ROUTES = "override,warn"
    /\ InitApp
    /\ InitCallbackVars
    /\ InitSubclassVars
    /\ InitRouteVars
    /\ InitFindVars
    /\ InitInfoVars
    /\ InitRequestVars
    /\ InitDbVars
    /\ InitFormatVars
    /\ InitLaterVars

NextFind == FindPlugin

SpecFind == InitFind /\ [][NextFind]_vars

\* SpecInfo: one run of load_plugins for plugin modules with and without
\* an info module and PLUGIN_INFO, and the calls of get_loaded_plugins
\* after it
InfoPlugins == {"a"}

InitInfo ==
    /\ InitConfigVars
    /\ pc = "start"
    /\ plugin_list \in PluginLists
    /\ idx = 1
    /\ installed \in SUBSET {ModuleOf(plugin) : plugin \in PluginNames}
    /\ \A plugin \in InfoPlugins : ModuleOf(plugin) \in installed
    /\ module_routes = [plugin \in PluginNames |-> << >>]
    /\ HANDLE_NOT_FOUND = "warn"
    /\ HANDLE_DUPLICATE_ROUTES = "override,warn"
    /\ InitApp
    /\ InitCallbackVars
    /\ InitSubclassVars
    /\ InitRouteVars
    /\ InitFindVars
    /\ \E info_module \in InfoModules, plugin_info \in PluginInfos :
          /\ info_modules =
                [module \in AllModules |->
                    IF module \in {ModuleOf(plugin) : plugin \in InfoPlugins}
                    THEN info_module ELSE NoInfoModule]
          /\ PLUGIN_INFO =
                [module \in AllModules |->
                    IF module \in {ModuleOf(plugin) : plugin \in InfoPlugins}
                    THEN plugin_info ELSE NoPluginInfo]
    /\ declared_info = PLUGIN_INFO
    /\ descriptors = << >>
    /\ listing = NoListing
    /\ InitRequestVars
    /\ InitDbVars
    /\ InitFormatVars
    /\ InitLaterVars

NextInfo ==
    \/ BeginLoad
    \/ LoadEntry
    \/ FinishLoad
    \/ GetLoadedPlugins

SpecInfo == InitInfo /\ [][NextInfo]_vars

\* SpecRequest: the hooks of up to two requests at a time, every hook
\* method returning
InitRequest == InitConfig

NextRequest ==
    \/ NewRequest
    \/ EnterLogger
    \/ EnterState
    \/ FilterCqpInput
    \/ FilterCqpOutput
    \/ ExitLogger
    \/ ExitState

SpecRequest == InitRequest /\ [][NextRequest]_vars

\* SpecRequestFailure: the same with exit_handler of KorpLogger raising
InitRequestFailure == InitConfig

NextRequestFailure ==
    \/ NewRequest
    \/ EnterLogger
    \/ EnterState
    \/ FilterCqpInput
    \/ FilterCqpOutput
    \/ ExitLogger
    \/ ExitState
    \/ ExitLoggerRaises

SpecRequestFailure == InitRequestFailure /\ [][NextRequestFailure]_vars

\* SpecDb: calls of get_protected_corpora against a database that may fail,
\* under both values of PERSISTENT_DB_CONNECTION
InitDb ==
    /\ InitConfigVars
    /\ pc = "idle"
    /\ plugin_list = << >>
    /\ idx = 1
    /\ installed = {}
    /\ module_routes = [plugin \in PluginNames |-> << >>]
    /\ HANDLE_NOT_FOUND = "warn"
    /\ HANDLE_DUPLICATE_ROUTES = "override,warn"
    /\ InitApp
    /\ InitCallbackVars
    /\ InitSubclassVars
    /\ InitRouteVars
    /\ InitFindVars
    /\ InitInfoVars
    /\ InitRequestVars
    /\ PERSISTENT_DB_CONNECTION \in BOOLEAN
    /\ _connection = 0
    /\ open_connections = {}
    /\ protected = NoProtected
    /\ InitFormatVars
    /\ InitLaterVars

NextDb == GetProtectedCorpora

SpecDb == InitDb /\ [][NextDb]_vars

\* SpecFormat: one record of every length up to MaxMessageLen formatted
\* under every maxlen and every truncate position of the bounds
InitFormat ==
    /\ InitConfigVars
    /\ pc = "idle"
    /\ plugin_list = << >>
    /\ idx = 1
    /\ installed = {}
    /\ module_routes = [plugin \in PluginNames |-> << >>]
    /\ HANDLE_NOT_FOUND = "warn"
    /\ HANDLE_DUPLICATE_ROUTES = "override,warn"
    /\ InitApp
    /\ InitCallbackVars
    /\ InitSubclassVars
    /\ InitRouteVars
    /\ InitFindVars
    /\ InitInfoVars
    /\ InitRequestVars
    /\ InitDbVars
    /\ LOG_MESSAGE_TRUNCATE_POS \in (-MaxTruncatePos)..MaxTruncatePos
    /\ \E n \in 0..MaxMessageLen, maxlen \in (-1)..MaxMessageLen :
          record = [result |-> Message(n), maxlen |-> maxlen]
    /\ formatted = NotFormatted
    /\ InitLaterVars

NextFormat == Format

SpecFormat == InitFormat /\ [][NextFormat]_vars

\* SpecProcess: the configuration of one plugin in a process that runs
\* load_plugins once or more often, for every deployment
InitProcess ==
    /\ InitConfigVars
    /\ InitIdleCore
    /\ deployment \in Deployments
    /\ source_objects = deployment
    /\ InitThreadVars
    /\ InitMethodVars

NextProcess ==
    \/ ProcessListEntry
    \/ PluginGetsConfig
    \/ ConstructEndpointPlugin
    \/ DeclareRoute
    \/ LoaderGetsConfig

SpecProcess == InitProcess /\ [][NextProcess]_vars

\* SpecThreads: the request threads call get_instance after the plugins
\* have been loaded, whatever concrete subclass of ProtectedCorporaGetter
\* the plugins have defined last
InitThreads ==
    /\ InitConfigVars
    /\ pc = "idle"
    /\ plugin_list = << >>
    /\ idx = 1
    /\ installed = {}
    /\ module_routes = [plugin \in PluginNames |-> << >>]
    /\ HANDLE_NOT_FOUND = "warn"
    /\ HANDLE_DUPLICATE_ROUTES = "override,warn"
    /\ InitApp
    /\ InitCallbackVars
    /\ \E cls \in SubClasses :
          /\ _subclass = [b \in {BaseOf(cls)} |-> cls]
          /\ defined = <<[cls |-> cls, abstract |-> FALSE]>>
    /\ _overridden = << >>
    /\ _instance = << >>
    /\ constructed = [cls \in SubClasses |-> 0]
    /\ slots = [name \in {SlotNames[k] : k \in 1..Len(SlotNames)} |->
                    NoInstance]
    /\ got = NoOperation
    /\ InitRouteVars
    /\ InitFindVars
    /\ InitInfoVars
    /\ InitRequestVars
    /\ InitDbVars
    /\ InitFormatVars
    /\ InitProcessVars
    /\ InitThreadVars
    /\ InitMethodVars

NextThreads ==
    \E t \in Threads :
        \/ ThreadReadsSubclass(t)
        \/ ThreadConstructs(t)
        \/ ThreadSetsDefault(t)

SpecThreads == InitThreads /\ [][NextThreads]_vars

\* SpecMethods: the end of load_plugins and requests after it, for rules
\* with every set of methods under every policy for duplicate routes
InitMethods ==
    /\ InitConfigVars
    /\ pc = "loop"
    /\ plugin_list = << >>
    /\ idx = 1
    /\ installed = {}
    /\ module_routes = [plugin \in PluginNames |-> << >>]
    /\ HANDLE_NOT_FOUND = "warn"
    /\ HANDLE_DUPLICATE_ROUTES \in
          {"override", "override,warn", "ignore", "warn", "error"}
    /\ \E rules \in MethodRules :
          /\ _rules = MapAddAll(EmptyMap, rules)._rules
          /\ _rules_by_endpoint =
                MapAddAll(EmptyMap, rules)._rules_by_endpoint
          /\ _matcher = MapAddAll(EmptyMap, rules)._matcher
          /\ _remap = MapAddAll(EmptyMap, rules)._remap
          /\ registered = rules
    /\ loaded_plugins = <<"b">>
    /\ sys_path = <<"/usr/lib/python3">> \o SEARCH_PATH
    /\ stderr = << >>
    /\ raised = NoException
    /\ arbitrations = 0
    /\ matched = NoMatch
    /\ InitCallbackVars
    /\ InitSubclassVars
    /\ InitRouteVars
    /\ InitFindVars
    /\ InitInfoVars
    /\ InitRequestVars
    /\ InitDbVars
    /\ InitFormatVars
    /\ InitLaterVars

NextMethods ==
    \/ FinishLoad
    \/ ServeRequest

SpecMethods == InitMethods /\ [][NextMethods]_vars

(***************************************************************************)
(* Claims about configuration resolution (SpecConfig)                      *)
(***************************************************************************)
\* The sources of a first call, highest priority first
CallSources(c) == << c.entry, c.section, c.module, c.defaults >>

\* The value of key in the highest-priority source of the call that
\* defines it, None when no source does
HighestPriorityValue(c, key) ==
    IF key \in DOMAIN c.entry THEN c.entry[key]
    ELSE IF key \in DOMAIN c.section THEN c.section[key]
    ELSE IF key \in DOMAIN c.module THEN c.module[key]
    ELSE IF key \in DOMAIN c.defaults THEN c.defaults[key]
    ELSE None

\* The last non-empty source of the call, "the defaults"
DefaultSource(c) ==
    IF NonEmpty(c.defaults) THEN c.defaults
    ELSE IF NonEmpty(c.module) THEN c.module
    ELSE IF NonEmpty(c.section) THEN c.section
    ELSE c.entry

\* The keys a source may give a value to
LegalKeys(c) == DOMAIN DefaultSource(c) \cup {"RENAME_ROUTES"}

\* Some source of the call has a key outside the legal key set
HasUnknownKey(c) ==
    \E i \in 1..4 : \E key \in DOMAIN CallSources(c)[i] : key \notin LegalKeys(c)

IsExampleCall(c) ==
    /\ c.first
    /\ c.defaults = [A |-> "1", B |-> "2"]
    /\ c.section = [A |-> "5"]
    /\ c.entry = [B |-> "9"]
    /\ c.module = EmptyConf

\* C1: the config a first get_plugin_config call returns has for every key
\* the value of the highest-priority source that defines the key, in the
\* order entry-level config > global section > config module > declared
\* defaults; defaults {A:1,B:2}, section {A:5} and entry {B:9} give
\* {A:5,B:9}
C1_Precedence ==
    call.first =>
        /\ \A key \in DOMAIN call.ret :
              call.ret[key] = HighestPriorityValue(call, key)
        /\ IsExampleCall(call) =>
              /\ call.ret["A"] = "5"
              /\ call.ret["B"] = "9"

C1_Witness ==
    /\ IsExampleCall(call)
    /\ call.plugin = "a"
    /\ plugin_configs["a"] = call.ret

C3_KeySet ==
    call.first => DOMAIN call.ret = LegalKeys(call)

C5_RenameRoutesAlways ==
    call.first =>
        /\ "RENAME_ROUTES" \in DOMAIN call.ret
        /\ call.ret["RENAME_ROUTES"] =
              HighestPriorityValue(call, "RENAME_ROUTES")

(***************************************************************************)
(* Claims about load_plugins (SpecLoad)                                    *)
(***************************************************************************)
\* Some candidate module of the plugin can be imported
Importable(plugin) ==
    \E i \in 1..Len(PACKAGES) : <<PACKAGES[i], plugin>> \in installed

EntryName(i) == plugin_list[i][1]

\* The names of the importable entries among the first n of plugin_list
ImportableNames(n) ==
    LET names == [i \in 1..n |-> EntryName(i)]
    IN  SelectSeq(names, Importable)

LoadStarted == pc \in {"loop", "done", "raised"}

\* C6: the loaded plugins are the importable names of the entries processed
\* so far, in the order of the list and each once; when load_plugins
\* completes every entry has been processed
C6_LoadOrder ==
    LoadStarted =>
        /\ loaded_plugins = ImportableNames(idx - 1)
        /\ \A i, j \in 1..Len(loaded_plugins) :
              loaded_plugins[i] = loaded_plugins[j] => i = j
        /\ pc = "done" => idx = Len(plugin_list) + 1

C6_Witness ==
    /\ pc = "done"
    /\ loaded_plugins = <<"c", "a">>
    /\ EntryName(2) = "b"
    /\ Len(plugin_list[3]) = 2

IsNotFoundMessage(msg) ==
    msg.kind \in {"Warning: Plugin not found", "Plugin not found"}

NotFoundMessages == SelectSeq(stderr, IsNotFoundMessage)

NotImportable(plugin) == ~Importable(plugin)

\* The entries among the first n of plugin_list that cannot be imported
MissingNames(n) ==
    LET names == [i \in 1..n |-> EntryName(i)]
    IN  SelectSeq(names, NotImportable)

NotFoundRaised == raised.type = "ModuleNotFoundError"

\* C7: an entry that cannot be imported gets no descriptor; with `ignore`
\* nothing is printed and the loop goes on, with `warn` one warning per such
\* entry is printed and the loop goes on, with any other value the import
\* error is raised at the first such entry and no later entry is loaded
C7_NotFoundPolicy ==
    LoadStarted =>
        /\ \A i \in 1..Len(plugin_list) :
              NotImportable(EntryName(i)) =>
                  \A k \in 1..Len(loaded_plugins) :
                      loaded_plugins[k] # EntryName(i)
        /\ HANDLE_NOT_FOUND = "ignore" =>
              /\ NotFoundMessages = << >>
              /\ ~NotFoundRaised
        /\ HANDLE_NOT_FOUND = "warn" =>
              /\ Len(NotFoundMessages) = Len(MissingNames(idx - 1))
              /\ \A k \in 1..Len(NotFoundMessages) :
                    /\ NotFoundMessages[k].kind = "Warning: Plugin not found"
                    /\ NotFoundMessages[k].subject =
                          <<MissingNames(idx - 1)[k]>>
              /\ ~NotFoundRaised
        /\ HANDLE_NOT_FOUND \notin {"ignore", "warn"} =>
              /\ MissingNames(idx - 1) = << >>
              /\ NotFoundRaised <=>
                    (pc = "raised" /\ idx <= Len(plugin_list)
                        /\ NotImportable(EntryName(idx)))
              /\ NotFoundRaised =>
                    /\ loaded_plugins = ImportableNames(idx - 1)
                    /\ \A j \in (idx + 1)..Len(plugin_list) :
                          \A k \in 1..Len(loaded_plugins) :
                              loaded_plugins[k] # EntryName(j)
              /\ (pc = "loop" /\ idx <= Len(plugin_list)
                     /\ NotImportable(EntryName(idx))) => ~ENABLED FinishLoad
              /\ pc = "done" => MissingNames(Len(plugin_list)) = << >>

C7_Witness ==
    /\ pc = "raised"
    /\ NotFoundRaised
    /\ idx = 2
    /\ loaded_plugins = <<EntryName(1)>>
    /\ Importable(EntryName(3))
    /\ Len(stderr) = 1

\* The rule registered last among the rules with the same path
IsLastOfPath(i) ==
    \A j \in (i + 1)..Len(registered) :
        registered[j].rule # registered[i].rule

IsFirstOfPath(i) ==
    \A j \in 1..(i - 1) : registered[j].rule # registered[i].rule

\* The rules registered last for their path, in the order of registration
LastRegistered ==
    LET IsLast(r) == \E i \in 1..Len(registered) :
                        registered[i] = r /\ IsLastOfPath(i)
    IN  SelectSeq(registered, IsLast)

\* C8: with `override` and `override,warn` the routing table holds after
\* load_plugins exactly one rule for every registered path, the one
\* registered last, and that rule's handler answers the path
C8_OverrideKeepsLast ==
    (pc = "done" /\ HANDLE_DUPLICATE_ROUTES \in {"override", "override,warn"})
    =>  /\ _rules = LastRegistered
        /\ _matcher = LastRegistered
        /\ \A i \in 1..Len(registered) :
              IsLastOfPath(i) =>
                  /\ MatchEndpoint(registered[i].rule) = registered[i].endpoint
                  /\ Cardinality({k \in 1..Len(_rules) :
                        _rules[k].rule = registered[i].rule}) = 1

C8_Witness ==
    /\ pc = "done"
    /\ HANDLE_DUPLICATE_ROUTES = "override"
    /\ Endpoints(registered) =
          << <<"korp", 1>>, <<"b", 1>>, <<"b", 2>>, <<"a", 1>>, <<"a", 2>> >>
    /\ module_routes["a"] = <<"x", "y">>
    /\ Endpoints(_rules) = << <<"b", 1>>, <<"a", 2>> >>
    /\ MatchEndpoint(<<"/", "y">>) = <<"a", 2>>
    /\ MatchEndpoint(<<"/", "x">>) = <<"b", 1>>

\* The paths with two or more registered rules
DuplicatedPaths ==
    {registered[i].rule : i \in {k \in 1..Len(registered) : ~IsLastOfPath(k)}}

RulesOfPath(path) ==
    LET HasPath(r) == r.rule = path
    IN  SelectSeq(registered, HasPath)

IsDuplicateMessage(msg) ==
    msg.kind \in {"using the first", "multiple endpoints", "overrides"}

DuplicateMessages == SelectSeq(stderr, IsDuplicateMessage)

RoutingTable == <<_rules, _rules_by_endpoint, _matcher, _remap>>

\* C9: with `ignore` and `warn` arbitration leaves the routing table and
\* the matcher as they are, so the first registered handler answers a
\* duplicated path; `warn` prints one diagnostic per duplicated path naming
\* the first handler as used and the later ones as discarded, `ignore`
\* prints nothing
C9_IgnoreWarnKeepFirst ==
    /\ [][(HANDLE_DUPLICATE_ROUTES \in {"ignore", "warn"} /\ pc = "loop"
              /\ idx > Len(plugin_list) /\ pc' # "loop")
          => (RoutingTable' = RoutingTable /\ pc' = "done")]_vars
    /\ []((pc = "done" /\ HANDLE_DUPLICATE_ROUTES \in {"ignore", "warn"})
          => /\ _rules = registered
             /\ _matcher = registered
             /\ \A i \in 1..Len(registered) :
                   IsFirstOfPath(i) =>
                       MatchEndpoint(registered[i].rule)
                           = registered[i].endpoint
             /\ HANDLE_DUPLICATE_ROUTES = "ignore" =>
                   DuplicateMessages = << >>
             /\ HANDLE_DUPLICATE_ROUTES = "warn" =>
                   /\ Len(DuplicateMessages) = Cardinality(DuplicatedPaths)
                   /\ \A path \in DuplicatedPaths :
                         \E k \in 1..Len(DuplicateMessages) :
                            /\ DuplicateMessages[k].kind = "using the first"
                            /\ DuplicateMessages[k].subject = path
                            /\ DuplicateMessages[k].used =
                                  <<RulesOfPath(path)[1].endpoint>>
                            /\ DuplicateMessages[k].discarded =
                                  Endpoints(Tail(RulesOfPath(path))))

C9_Witness ==
    /\ pc = "done"
    /\ HANDLE_DUPLICATE_ROUTES = "warn"
    /\ Cardinality(DuplicatedPaths) = 2
    /\ Len(RulesOfPath(<<"/", "y">>)) = 3
    /\ Len(_rules) = 5
    /\ MatchEndpoint(<<"/", "x">>) = <<"korp", 1>>

ArbitrationRan ==
    pc = "done" \/ (pc = "raised" /\ ~NotFoundRaised)

\* Every endpoint of rules is among names
AllNamed(rules, names) ==
    \A i \in 1..Len(rules) : \E k \in 1..Len(names) :
        names[k] = rules[i].endpoint

\* C10 as claimed: with `error` load_plugins raises exactly when some path
\* has two or more rules, the raised error identifies all the conflicting
\* handlers, and the routing table is not modified
C10_ErrorNamesHandlers ==
    (ArbitrationRan /\ HANDLE_DUPLICATE_ROUTES = "error")
    =>  /\ raised.type = "ValueError" <=> DuplicatedPaths # {}
        /\ pc = "raised" <=> DuplicatedPaths # {}
        /\ \A path \in DuplicatedPaths :
              AllNamed(RulesOfPath(path), raised.names)
        /\ _rules = registered
        /\ _matcher = registered

\* C10 as amended: with `error` load_plugins raises ValueError exactly
\* when some path has two or more rules; the conflicting handlers of every
\* duplicated path are all named by a diagnostic printed to stderr before
\* the error is raised, the error itself names none; the routing table is
\* not modified
C10_ErrorRaises ==
    (ArbitrationRan /\ HANDLE_DUPLICATE_ROUTES = "error")
    =>  /\ raised.type = "ValueError" <=> DuplicatedPaths # {}
        /\ pc = "raised" <=> DuplicatedPaths # {}
        /\ raised.names = << >>
        /\ Len(DuplicateMessages) = Cardinality(DuplicatedPaths)
        /\ \A path \in DuplicatedPaths :
              \E k \in 1..Len(DuplicateMessages) :
                 /\ DuplicateMessages[k].kind = "multiple endpoints"
                 /\ DuplicateMessages[k].subject = path
                 /\ DuplicateMessages[k].discarded =
                       Endpoints(RulesOfPath(path))
        /\ _rules = registered
        /\ _matcher = registered
        /\ _rules_by_endpoint =
              MapAddAll(EmptyMap, registered)._rules_by_endpoint

C10_Witness ==
    /\ pc = "raised"
    /\ raised.type = "ValueError"
    /\ HANDLE_DUPLICATE_ROUTES = "error"
    /\ Cardinality(DuplicatedPaths) = 2
    /\ Len(RulesOfPath(<<"/", "x">>)) = 3
    /\ Len(_rules) = 5

(***************************************************************************)
(* Claims about the rules arbitration leaves alone (SpecLoad)              *)
(***************************************************************************)
HasUniquePath(r) == Len(RulesOfPath(r.rule)) = 1

InRules(r) == \E k \in 1..Len(_rules) : _rules[k] = r

InMatcher(r) == \E k \in 1..Len(_matcher) : _matcher[k] = r

InIndex(r) ==
    /\ r.endpoint \in DOMAIN _rules_by_endpoint
    /\ \E k \in 1..Len(_rules_by_endpoint[r.endpoint]) :
          _rules_by_endpoint[r.endpoint][k] = r

\* The groups _find_key_duplicates returns for the registered rules
DuplicateGroups == _find_key_duplicates(registered)

AcceptingInstances ==
    LET Accepts(inst) == applies_to(inst[1], dispatch.request)
    IN  SelectSeq(hook_points[dispatch.hook], Accepts)

\* The instances the last dispatch called, in the order of the calls
CalledInstances ==
    [i \in 1..Len(dispatch.calls) |-> dispatch.calls[i].instance]

\* P_n.h(...P_1.h(value)) for the instances insts = <<P_1, ..., P_n>>
RECURSIVE Composition(_, _, _, _)
Composition(insts, hook, request, value) ==
    IF insts = << >> THEN value
    ELSE Composition(Tail(insts), hook, request,
                     HookMethod(Head(insts)[1], hook, request, value))

\* The value the i-th call of the last dispatch leaves for the next one
ValueAfter(i) ==
    IF dispatch.calls[i].ret # NoneValue THEN dispatch.calls[i].ret
    ELSE dispatch.calls[i].arg

C13_Broadcast ==
    dispatch.kind = "event" =>
        /\ CalledInstances = AcceptingInstances
        /\ \A i, j \in 1..Len(dispatch.calls) :
              dispatch.calls[i].instance = dispatch.calls[j].instance
                  => i = j
        /\ \A i \in 1..Len(dispatch.calls) :
              /\ dispatch.calls[i].arg = dispatch.value
              /\ dispatch.calls[i].ret =
                    HookMethod(dispatch.calls[i].instance[1], dispatch.hook,
                               dispatch.request, dispatch.value)
        /\ dispatch.result = NoneValue

\* A broadcast to four instances of which one does not accept the request
\* and two return a value
C13_Witness ==
    /\ dispatch.kind = "event"
    /\ dispatch.hook = "filter_result"
    /\ dispatch.request = "count.count"
    /\ Len(hook_points["filter_result"]) = 4
    /\ Len(dispatch.calls) = 3
    /\ dispatch.calls[3].ret = NoneValue
    /\ dispatch.calls[2].ret = <<"wrap2", "d">>
    /\ dispatch.result = NoneValue

\* The callback classes of the loaded plugin modules, in the order of
\* loading and, within a module, of definition
RECURSIVE LoadedClasses(_)
LoadedClasses(plugins) ==
    IF plugins = << >> THEN << >>
    ELSE CallbackClasses(Head(plugins)) \o LoadedClasses(Tail(plugins))

\* C14: every callback class of a loaded plugin module has exactly one
\* instance and no other class has any; the list of every hook point holds
\* that instance of every loaded class that implements the hook point, and
\* nothing else, in the order in which the classes were loaded
C14_SingletonLoadOrder ==
    /\ \A cls \in ClassNames :
          callback_instances[cls] =
              IF \E i \in 1..Len(LoadedClasses(loaded_plugins)) :
                    LoadedClasses(loaded_plugins)[i] = cls
              THEN 1 ELSE 0
    /\ \A h \in HookNames :
          LET Implements(cls) == h \in HooksOf(cls)
              classes == SelectSeq(LoadedClasses(loaded_plugins), Implements)
          IN  hook_points[h] = [i \in 1..Len(classes) |-> <<classes[i], 1>>]

\* Both modules with callback classes are loaded, example2 ("c") first
C14_Witness ==
    /\ pc = "done"
    /\ loaded_plugins = <<"c", "a">>
    /\ callback_instances["Example3"] = 1
    /\ hook_points["filter_result"] =
          << <<"Example2", 1>>, <<"Example3", 1>>, <<"Example4a", 1>>,
             <<"Example1b", 1>> >>
    /\ hook_points["enter_handler"][4] = <<"StateExample", 1>>
    /\ hook_points["exit_handler"][1] = hook_points["filter_sql"][1]


(***************************************************************************)
(* Claims about capability classes (SpecSubclass)                          *)
(***************************************************************************)
\* The classes defined so far that are not abstract and are subclasses of
\* baseclass, in the order of their definition
ConcreteSubclasses(baseclass) ==
    LET IsConcrete(d) == ~d.abstract /\ BaseOf(d.cls) = baseclass
        concrete == SelectSeq(defined, IsConcrete)
    IN  [i \in 1..Len(concrete) |-> concrete[i].cls]

IsGetInstanceStep == got'.n # got.n /\ got'.op = "get_instance"

IsRegisterStep == got'.n # got.n /\ got'.op = "register_subclass_plugins"

\* C15: the class bound to an abstract base class is the concrete subclass
\* defined last, the overridden list holds the concrete subclasses defined
\* before it in the order of definition, and abstract subclasses count for
\* neither; get_instance returns None for a base class without a concrete
\* subclass and else the one cached instance of the bound class, which
\* never changes once it is cached
C15_LastDefinedWins ==
    /\ [](\A baseclass \in BaseClasses :
            LET concrete == ConcreteSubclasses(baseclass)
            IN  /\ baseclass \in DOMAIN _subclass <=> concrete # << >>
                /\ concrete # << >> =>
                      _subclass[baseclass] = concrete[Len(concrete)]
                /\ OverriddenOf(_overridden, baseclass) =
                      SubSeq(concrete, 1, Len(concrete) - 1))
    /\ [][IsGetInstanceStep =>
            LET concrete == ConcreteSubclasses(got'.cls)
            IN  IF concrete = << >> THEN got'.ret = NoInstance
                ELSE /\ got'.ret[1] = concrete[Len(concrete)]
                     /\ got'.ret = _instance'[concrete[Len(concrete)]]]_vars
    /\ [][\A cls \in DOMAIN _instance :
            cls \in DOMAIN _instance' /\ _instance'[cls] = _instance[cls]]_vars

\* C1, the abstract C2 and C3 are defined in this order and get_instance
\* is called twice
C15_Witness ==
    /\ Len(defined) = 3
    /\ defined[2].abstract
    /\ ConcreteSubclasses("ProtectedCorporaGetter") = <<defined[1].cls,
                                                         defined[3].cls>>
    /\ _overridden["ProtectedCorporaGetter"] = <<defined[1].cls>>
    /\ got.op = "get_instance"
    /\ got.cls = "ProtectedCorporaGetter"
    /\ got.n = 2
    /\ got.ret = <<defined[3].cls, 1>>
    /\ constructed[defined[1].cls] = 0

\* C16: the constructor of a concrete capability class has run once when
\* an instance of the class is cached and has not run otherwise: not at
\* the definition of the class, and not in the later calls of get_instance
C16_ConstructedOnce ==
    \A cls \in SubClasses :
        constructed[cls] = IF cls \in DOMAIN _instance THEN 1 ELSE 0

\* C17: register_subclass_plugins changes the value of an annotated name
\* only when the value is None or override is requested, and then to the
\* instance get_instance returns for the annotated class; without override
\* a value other than None stays, and so does the value of a name whose
\* class has no concrete subclass; no other operation changes a value
C17_FillOnlyEmptySlots ==
    /\ [][IsRegisterStep =>
            \A k \in 1..Len(SlotNames) :
               LET name == SlotNames[k]
                   baseclass == SlotAnnotation(name).cls
               IN  /\ slots'[name] # slots[name] =>
                         /\ slots[name] = NoInstance \/ got'.override
                         /\ baseclass \in DOMAIN _subclass
                         /\ slots'[name] = _instance'[_subclass[baseclass]]
                   /\ (slots[name] # NoInstance /\ ~got'.override) =>
                         slots'[name] = slots[name]
                   /\ baseclass \notin DOMAIN _subclass =>
                         slots'[name] = slots[name]
                   /\ (slots[name] = NoInstance
                       /\ baseclass \in DOMAIN _subclass
                       /\ SlotAnnotation(name).origin = "Union") =>
                         slots'[name] = _instance'[_subclass[baseclass]]]_vars
    /\ [][~IsRegisterStep => slots' = slots]_vars

\* The name was set when C1 was bound; C2 is bound now and a call without
\* override has left the instance of C1 in place
C17_Witness ==
    /\ got.op = "register_subclass_plugins"
    /\ ~got.override
    /\ got.n = 2
    /\ "ProtectedCorporaGetter" \in DOMAIN _subclass
    /\ slots["protected_corpora_getter"] # NoInstance
    /\ slots["protected_corpora_getter"][1] #
          _subclass["ProtectedCorporaGetter"]
    /\ slots["authorizer"] = NoInstance


(***************************************************************************)
(* Claims about route declarations (SpecRoute)                             *)
(***************************************************************************)
\* The routes declared so far, as pairs of a plugin and an index
DeclaredRoutes ==
    {pi \in (DOMAIN blueprints) \X (1..MaxDeclared) :
        pi[2] <= Len(blueprints[pi[1]])}

RouteOf(pi) == blueprints[pi[1]][pi[2]]

\* The RENAME_ROUTES setting of a plugin that has declared a route
RenameSetting(plugin) ==
    IF "RENAME_ROUTES" \in DOMAIN plugin_configs[plugin]
    THEN plugin_configs[plugin]["RENAME_ROUTES"] ELSE None

\* C18: a route declared with the rule /R has the rule /R_v2 when
\* RENAME_ROUTES is the format string "{0}_v2", the rule /y for R = x and
\* /R for another R when it is the dict {"x": "y"}, the rule /v2R when it
\* is the function prefixing v2, and /R when it is None or missing; the
\* rule begins with the slash in every case
C18_RenamedRule ==
    \A pi \in DeclaredRoutes :
        LET r == RouteOf(pi)
            R == r.declared_rule[2]
            rename == RenameSetting(pi[1])
        IN  /\ r.declared_rule = <<"/", R>>
            /\ r.rule[1] = "/"
            /\ rename = "format" => r.rule = <<"/", R, "_v2">>
            /\ rename = "dict" =>
                  r.rule = IF R = "x" THEN <<"/", "y">> ELSE <<"/", R>>
            /\ rename = "callable" => r.rule = <<"/", "v2", R>>
            /\ rename = None => r.rule = <<"/", R>>

C18_Witness ==
    /\ "b" \in DOMAIN blueprints
    /\ Len(blueprints["b"]) = 1
    /\ plugin_configs["b"] = [k \in {"RENAME_ROUTES"} |-> "format"]
    /\ blueprints["b"][1].declared_rule = <<"/", "x">>
    /\ blueprints["b"][1].rule = <<"/", "x", "_v2">>

C20_UnknownDecoratorSkipped ==
    \A pi \in DeclaredRoutes :
        LET r == RouteOf(pi)
            WasAvailable(name) == name \in r.available
        IN  r.view_func =
                SelectSeq(<<"main_handler">> \o r.extra_decorators,
                          WasAvailable) \o <<"wrapper">>

C20_Witness ==
    /\ "b" \in DOMAIN blueprints
    /\ Len(blueprints["b"]) = 1
    /\ blueprints["b"][1].available =
          {"main_handler", "use_custom_headers"}
    /\ blueprints["b"][1].extra_decorators =
          <<"prevent_timeout", "use_custom_headers">>
    /\ blueprints["b"][1].view_func =
          <<"main_handler", "use_custom_headers", "wrapper">>

(***************************************************************************)
(* Claims about _find_plugin (SpecFind)                                    *)
(***************************************************************************)
\* Whether a plugin name contains a dot
HasDot(plugin) == plugin \in DottedNames

\* The module of plugin under a package of PACKAGES
UnderPackage(k, plugin) == module_name(PACKAGES[k], plugin)

\* The module named by the bare plugin name
Bare(plugin) == module_name("", plugin)

\* The order of the claim: the bare name first if and only if the name
\* contains a dot, then the name under each package in configured order
ClaimedOrder(plugin) ==
    (IF HasDot(plugin) THEN <<Bare(plugin)>> ELSE << >>) \o
    [k \in 1..Len(PACKAGES) |-> UnderPackage(k, plugin)]

\* C21: _find_plugin tries the bare name first iff the name contains a
\* dot, then the name under each package of PACKAGES in configured order;
\* it returns the first candidate that imports, and it raises
\* ModuleNotFoundError, naming every candidate tried, only when all
\* candidates fail.
C21_FindOrder ==
    found # NoFind =>
        LET order == ClaimedOrder(found.plugin)
            importing == {i \in 1..Len(order) : order[i] \in installed}
        IN  /\ importing # {} =>
                  \E i \in importing :
                     /\ \A j \in importing : i <= j
                     /\ found.module = order[i]
                     /\ found.not_found = SubSeq(order, 1, i - 1)
                     /\ found.raised = NoException
            /\ found.raised.type = "ModuleNotFoundError" =>
                  /\ importing = {}
                  /\ found.raised.names = order
            /\ importing = {} => found.module = NotFound

\* A dotted name whose bare module and a packaged module are both
\* installed is found as the bare module
C21_Witness ==
    /\ HasDot(found.plugin)
    /\ found.module = Bare(found.plugin)
    /\ UnderPackage(1, found.plugin) \in installed

(***************************************************************************)
(* Claims about plugin information (SpecInfo)                              *)
(***************************************************************************)
LoadedNames == {loaded_plugins[i] : i \in 1..Len(loaded_plugins)}

\* The keys the variables of the info module of a module give
InfoUnitKeys(module) ==
    IF info_modules[module].exists
    THEN {lower[name] : name \in info_modules[module].names}
    ELSE {}

\* The keys of the PLUGIN_INFO a module defines itself
OwnInfoKeys(module) ==
    IF declared_info[module].defined
    THEN DOMAIN declared_info[module].value
    ELSE {}

\* The metadata recorded in a descriptor: every key but the module handle
\* load_plugins has put there
MetadataKeys(plugin) ==
    IF "module" \in OwnInfoKeys(ModuleOf(plugin)) \cup
                        InfoUnitKeys(ModuleOf(plugin))
    THEN DOMAIN descriptors[plugin]
    ELSE DOMAIN descriptors[plugin] \ {"module"}

\* C22: the metadata of a loaded plugin is the union of the variables of
\* its info module (names lower-cased) and its own PLUGIN_INFO; for a key
\* present in both the value from PLUGIN_INFO is recorded in the
\* descriptor; with no info module the metadata equals PLUGIN_INFO, and
\* with neither it is empty.
C22_InfoMerge ==
    \A plugin \in LoadedNames :
        LET module == ModuleOf(plugin)
            d == descriptors[plugin]
        IN  /\ MetadataKeys(plugin) =
                  InfoUnitKeys(module) \cup OwnInfoKeys(module)
            /\ \A key \in OwnInfoKeys(module) :
                  d[key] = declared_info[module].value[key]
            /\ \A key \in InfoUnitKeys(module) \ OwnInfoKeys(module) :
                  \E name \in info_modules[module].names :
                     lower[name] = key /\ d[key] = InfoValue(name)
            /\ ~info_modules[module].exists =>
                  [key \in MetadataKeys(plugin) |-> d[key]] =
                      (IF declared_info[module].defined
                       THEN declared_info[module].value ELSE EmptyInfo)
            /\ (~info_modules[module].exists /\
                   ~declared_info[module].defined) =>
                  MetadataKeys(plugin) = {}

\* A plugin is loaded whose info module and PLUGIN_INFO both give the key
\* "name", and whose info module alone gives "version"
C22_Witness ==
    \E plugin \in LoadedNames :
        /\ "name" \in InfoUnitKeys(ModuleOf(plugin)) \cap
                          OwnInfoKeys(ModuleOf(plugin))
        /\ "version" \in InfoUnitKeys(ModuleOf(plugin)) \
                             OwnInfoKeys(ModuleOf(plugin))
        /\ descriptors[plugin]["name"] = PluginInfoValue("name")
        /\ descriptors[plugin]["version"] = InfoValue("VERSION")

\* C25: get_loaded_plugins(names_only=True) returns the loaded plugin
\* names; get_loaded_plugins() returns one {name, info} pair per loaded
\* plugin in the same order, where info holds every metadata key of the
\* descriptor and never the internal key "module"; neither call modifies
\* loaded_plugins.
C25_Listing ==
    /\ [](listing.n > 0 =>
            IF listing.names_only
            THEN listing.ret = loaded_plugins
            ELSE /\ Len(listing.ret) = Len(loaded_plugins)
                 /\ \A i \in 1..Len(loaded_plugins) :
                       LET plugin == loaded_plugins[i]
                           module == ModuleOf(plugin)
                       IN  /\ listing.ret[i].name = plugin
                           /\ DOMAIN listing.ret[i].info =
                                 DOMAIN PLUGIN_INFO[module].value
                           /\ \A key \in DOMAIN listing.ret[i].info :
                                 listing.ret[i].info[key] =
                                     PLUGIN_INFO[module].value[key])
    /\ [][listing' # listing =>
             /\ loaded_plugins' = loaded_plugins
             /\ descriptors' = descriptors]_vars

(***************************************************************************)
(* Claims about the time of arbitration (SpecLoad)                         *)
(***************************************************************************)
\* The run of load_plugins has ended, by returning or by raising
RunEnded == pc \in {"done", "raised"}

\* Every entry of the plugin list has been processed
AllEntriesProcessed == idx > Len(plugin_list)

RuleStructures == <<_rules, _rules_by_endpoint, _matcher>>

\* Arbitration runs only after every entry has been processed, at most
\* once, and the rules of the routing table do not change after the run
ArbitrationAtEndOnly ==
    /\ [][arbitrations' # arbitrations =>
             AllEntriesProcessed /\ arbitrations = 0]_vars
    /\ [][RunEnded => /\ RuleStructures' = RuleStructures
                      /\ arbitrations' = arbitrations]_vars

\* C23: in every run of load_plugins, duplicate-route arbitration executes
\* exactly once and only after every entry of the plugin list has been
\* processed; it never runs between two entries, and the routing table is
\* not modified by arbitration at any later time.
C23_ArbitrationOnce ==
    /\ [](RunEnded => arbitrations = 1)
    /\ ArbitrationAtEndOnly

\* C23 (amended): the same for every run that processes every entry of the
\* plugin list; a run that the not-found policy "error" ends at an entry
\* executes no arbitration.
C23_ArbitrationOnceAfterAllEntries ==
    /\ []((RunEnded /\ AllEntriesProcessed) => arbitrations = 1)
    /\ []((RunEnded /\ ~AllEntriesProcessed) =>
            /\ arbitrations = 0
            /\ raised.type = "ModuleNotFoundError"
            /\ HANDLE_NOT_FOUND = "error")
    /\ ArbitrationAtEndOnly

\* A run with three entries and rules of two plugins for one path has
\* returned after one arbitration that removed rules, and a request has
\* been matched since
C23_Witness ==
    /\ pc = "done"
    /\ Len(plugin_list) = 3
    /\ arbitrations = 1
    /\ Len(_rules) < Len(registered)
    /\ matched # NoMatch

(***************************************************************************)
(* Claims about per-request state (SpecRequest, SpecRequestFailure)        *)
(***************************************************************************)
\* The requests being processed
Processed == {requests[slot] : slot \in {sl \in Slots :
                                            requests[sl].phase # "none"}}

\* The requests between enter_handler and exit_handler of KorpLogger, and
\* of StateExample
InLogger == {r \in Processed : r.phase \in {"entered", "handling", "cqp"}}

InStateExample ==
    {r \in Processed : r.phase \in {"handling", "cqp", "exiting"}}

C28_NoEntryForFinished ==
    \A f \in finished :
        /\ \A id \in DOMAIN _loggers : _loggers[id].serial # f.serial
        /\ \A id \in DOMAIN _logdata : _logdata[id].serial # f.serial
        /\ \A id \in DOMAIN _data : _data[id].serial # f.serial

(***************************************************************************)
(* Claims about the structures of the routing table (SpecLoad)             *)
(***************************************************************************)
RuleSet(rules) == {rules[k] : k \in 1..Len(rules)}

\* The rules of the rules-by-endpoint index
IndexRules ==
    UNION {RuleSet(_rules_by_endpoint[e]) : e \in DOMAIN _rules_by_endpoint}

\* The rules arbitration retains: for every path the one registered last
Retained == RuleSet(LastRegistered)

Removed == RuleSet(registered) \ Retained

\* C26: after arbitration under `override` the ordered rule list, the
\* rules-by-endpoint index and the rebuilt route-matching index contain
\* exactly the same set of rules, the retained ones, and no removed rule
\* can be matched by a request.
C26_StructuresAgree ==
    (pc = "done" /\ HANDLE_DUPLICATE_ROUTES \in {"override", "override,warn"})
    =>  /\ RuleSet(_rules) = Retained
        /\ IndexRules = Retained
        /\ RuleSet(_matcher) = Retained
        /\ \A path \in RequestPaths : \A r \in Removed :
              MatchEndpoint(path) # r.endpoint
        /\ \A r \in Removed : matched.endpoint # r.endpoint

\* Under `override` two rules have been removed, and a request for a path
\* that had three rules has been answered
C26_Witness ==
    /\ pc = "done"
    /\ HANDLE_DUPLICATE_ROUTES = "override"
    /\ Cardinality(Removed) >= 2
    /\ matched # NoMatch
    /\ Cardinality({r \in RuleSet(registered) : r.rule = matched.path}) = 3

(***************************************************************************)
(* Claims about configurations without declared defaults (SpecConfig)      *)
(***************************************************************************)
\* A first call that passes no declared defaults, or empty ones, while
\* some other source is not empty
WithoutDefaults(c) ==
    /\ c.first
    /\ ~NonEmpty(c.defaults)
    /\ NonEmpty(c.module) \/ NonEmpty(c.section) \/ NonEmpty(c.entry)

\* The first non-empty of the config module, the global section and the
\* entry-level config, tried in this order
FirstNonEmpty(c) ==
    IF NonEmpty(c.module) THEN c.module
    ELSE IF NonEmpty(c.section) THEN c.section
    ELSE c.entry

\* The value the sources of higher priority leave a key of the first
\* non-empty source with
OverriddenValue(c, key) ==
    IF key \in DOMAIN c.entry THEN c.entry[key]
    ELSE IF key \in DOMAIN c.section THEN c.section[key]
    ELSE FirstNonEmpty(c)[key]

\* C27: when a plugin passes no declared defaults (or empty ones), the
\* legal key set and the default values of its config are taken from the
\* first non-empty of the config module, the global section and the
\* entry-level config, tried in this order; the remaining higher-priority
\* sources only override values of keys in that set.
C27_KeysOfFirstNonEmpty ==
    WithoutDefaults(call) =>
        /\ DOMAIN call.ret = DOMAIN FirstNonEmpty(call)
        /\ \A key \in DOMAIN call.ret :
              call.ret[key] = OverriddenValue(call, key)

\* C27 (amended): the legal key set is the key set of that source together
\* with RENAME_ROUTES, whose default value is None.
C27_KeysOfFirstNonEmptyAndRenameRoutes ==
    WithoutDefaults(call) =>
        /\ DOMAIN call.ret = DOMAIN FirstNonEmpty(call) \cup {"RENAME_ROUTES"}
        /\ \A key \in DOMAIN FirstNonEmpty(call) :
              call.ret[key] = OverriddenValue(call, key)
        /\ "RENAME_ROUTES" \notin DOMAIN FirstNonEmpty(call) =>
              call.ret["RENAME_ROUTES"] =
                  (IF "RENAME_ROUTES" \in DOMAIN call.entry
                   THEN call.entry["RENAME_ROUTES"]
                   ELSE IF "RENAME_ROUTES" \in DOMAIN call.section
                        THEN call.section["RENAME_ROUTES"]
                        ELSE None)

\* A call without defaults whose config module has the keys A and B, whose
\* section overrides A and has RENAME_ROUTES, and whose entry-level config
\* has a key the module does not have
C27_Witness ==
    /\ WithoutDefaults(call)
    /\ DOMAIN call.module = {"A"}
    /\ DOMAIN call.section = {"A", "RENAME_ROUTES"}
    /\ DOMAIN call.entry = {"B"}
    /\ call.ret = [A |-> SourceValue["section"]["A"],
                   RENAME_ROUTES |-> SourceValue["section"]["RENAME_ROUTES"]]
(***************************************************************************)
(* C29: get_protected_corpora fails closed                                 *)
(***************************************************************************)
\* The database could not be reached or the query raised a handled error
\* in the last call
DbFailed ==
    \/ ~protected.reused /\ protected.outcome.connect = "error"
    \/ protected.outcome.execute = "error"
    \/ /\ protected.outcome.fetch_error_at # -1
       /\ protected.outcome.fetch_error_at <= Len(protected.outcome.rows)

Cut == formatted # NotFormatted /\ formatted # record.result

\* The truncation text occurs in s
ContainsTruncateText(s) ==
    \E i \in 1..Len(s) :
        SubSeq(s, i, i + Len(LOG_MESSAGE_TRUNCATE_TEXT) - 1)
            = LOG_MESSAGE_TRUNCATE_TEXT

\* C30: for every message length, every positive maxlen and every truncate
\* position the result of format is at most maxlen long and has the
\* truncation text when the message was cut; with maxlen <= 0 the message
\* is returned uncut.
C30_NeverLongerThanMaxlen ==
    formatted # NotFormatted =>
        /\ record.maxlen > 0 => Len(formatted) <= record.maxlen
        /\ Cut => ContainsTruncateText(formatted)
        /\ record.maxlen <= 0 => formatted = record.result

(***************************************************************************)
(* Claims about the configuration of a plugin in a process (SpecProcess)   *)
(***************************************************************************)
\* C31: once the configuration of a plugin has been resolved, every
\* get_plugin_config call for the plugin returns the object the first call
\* returned, whatever calls of add_plugin_config, constructions of
\* EndpointPlugin and runs of load_plugins came in between.
C31_ResolvedNeverChanges ==
    (call.plugin = ProcessPlugin /\ ProcessPlugin \in DOMAIN first_call)
        => call.ret = first_call[ProcessPlugin].ret

\* Without a config in the plugin-list entry no run of load_plugins
\* replaces the resolved configuration
C31_ResolvedKeptWithoutOverride ==
    (/\ deployment.entry = EmptyConf
     /\ call.plugin = ProcessPlugin
     /\ ProcessPlugin \in DOMAIN first_call)
        => call.ret = first_call[ProcessPlugin].ret

\* The value config precedence gives to RENAME_ROUTES in the deployment d
RenameByPrecedence(d) ==
    FirstValue(<<d.entry, d.section, d.module, d.defaults>>,
               "RENAME_ROUTES", None)

\* C32: every rule the plugin declares is renamed with the value config
\* precedence gives to RENAME_ROUTES (entry, else section, else config
\* module, else declared default, else None), whether the plugin constructs
\* its EndpointPlugin before or after its first get_plugin_config call or
\* never calls get_plugin_config.
C32_RenameByPrecedence ==
    ProcessPlugin \in DOMAIN blueprints =>
        \A i \in 1..Len(blueprints[ProcessPlugin]) :
            blueprints[ProcessPlugin][i].rule =
                EffectiveRule(
                    [p \in {ProcessPlugin} |->
                        [k \in {"RENAME_ROUTES"} |->
                            RenameByPrecedence(deployment)]],
                    ProcessPlugin,
                    blueprints[ProcessPlugin][i].declared_rule)


\* C34: config resolution modifies none of its sources: after
\* get_plugin_config returns, the declared defaults, the config module, the
\* section of the Korp configuration and the config of the plugin-list
\* entry have the keys and values the deployment gave them; in particular
\* no RENAME_ROUTES key is added to them.
C34_SourcesUnchanged ==
    /\ source_objects.defaults = deployment.defaults
    /\ source_objects.module = deployment.module
    /\ source_objects.section = deployment.section
    /\ source_objects.entry = deployment.entry


(***************************************************************************)
(* Claims about entries that are not found (SpecLoad)                      *)
(***************************************************************************)
\* load_plugins goes over an entry whose import raises ModuleNotFoundError
\* under the policy ignore or warn
SkipsNotFoundEntry ==
    /\ pc = "loop"
    /\ idx <= Len(plugin_list)
    /\ _find_plugin(EntryName(idx)) = NotFound
    /\ HANDLE_NOT_FOUND \in {"ignore", "warn"}
    /\ idx' = idx + 1

\* C33: under the not-found policy ignore or warn an entry whose import
\* raises ModuleNotFoundError leaves loaded_plugins, the routes of the app,
\* plugin_configs (also when the entry carries a config) and the capability
\* bindings as they were before the entry was processed.
C33_NotFoundLeavesRegistries ==
    [][SkipsNotFoundEntry =>
          UNCHANGED <<loaded_plugins, _rules, _rules_by_endpoint, _matcher,
                      registered, plugin_configs, _plugin_configs_expanded,
                      _subclass, _overridden, hook_points>>]_vars

\* The same without plugin_configs: what an entry none of whose candidate
\* modules is installed does leave alone
C33_NotFoundLeavesOtherRegistries ==
    [][SkipsNotFoundEntry =>
          UNCHANGED <<loaded_plugins, _rules, _rules_by_endpoint, _matcher,
                      registered, _plugin_configs_expanded,
                      _subclass, _overridden, hook_points>>]_vars


(***************************************************************************)
(* Claims about the instance of the chosen class (SpecSubclass,            *)
(* SpecThreads)                                                            *)
(***************************************************************************)
\* A step is a call of get_instance for a base class with a chosen subclass
GetInstanceReturns ==
    /\ got'.n = got.n + 1
    /\ got'.op = "get_instance"
    /\ got'.cls \in DOMAIN _subclass

C36_OneInstanceForAllThreads ==
    \A r1, r2 \in returned : r1[1] = r2[1] => r1[2] = r2[2]

\* The first calls of the two threads overlapped: the instance kept is the
\* second one constructed, so the thread that constructed the first one
\* called setdefault after the other.  Both calls and a later call have
\* returned the instance kept
C36_Witness ==
    /\ \A t \in Threads :
          /\ threads[t].pc = "idle"
          /\ threads[t].calls >= 1
          /\ threads[t].ret[2] = 2
    /\ \E t \in Threads : threads[t].calls = 2


(***************************************************************************)
(* Claims about duplicate rules with different methods (SpecMethods)       *)
(***************************************************************************)
\* The rule registered last among those with the path; 0 when there is none
LastWithPath(path) ==
    IF \E i \in 1..Len(registered) : registered[i].rule = path
    THEN CHOOSE i \in 1..Len(registered) :
            /\ registered[i].rule = path
            /\ \A j \in (i+1)..Len(registered) : registered[j].rule # path
    ELSE 0

\* C37: arbitration takes two rules for duplicates exactly when their paths
\* are equal, whatever their methods and their plugins: under override
\* only the last rule of a path remains, also when the earlier rules accept
\* other methods, so that a request with a method only an earlier rule
\* accepts is served by no handler.
C37_DuplicatesByPathOnly ==
    /\ (pc \in {"done", "raised"} /\ HANDLE_DUPLICATE_ROUTES = "error") =>
          (pc = "raised" <=>
              \E i, j \in 1..Len(registered) :
                  i < j /\ registered[i].rule = registered[j].rule)
    /\ (pc = "done" /\ IsOverride(HANDLE_DUPLICATE_ROUTES)) =>
        /\ \A i \in 1..Len(registered) :
              (\E k \in 1..Len(_rules) : _rules[k] = registered[i])
                  <=> LastWithPath(registered[i].rule) = i
        /\ Len(_rules) =
              Cardinality({registered[i].rule : i \in 1..Len(registered)})
        /\ served.n > 0 =>
              LET last == LastWithPath(served.path)
              IN  served.endpoint =
                     IF last = 0 THEN <<"404", 0>>
                     ELSE IF served.method \in registered[last].methods
                          THEN registered[last].endpoint
                          ELSE <<"405", 0>>

\* Under override a request got 405 for a method that a removed earlier
\* rule of its path accepted
C37_Witness ==
    /\ pc = "done"
    /\ IsOverride(HANDLE_DUPLICATE_ROUTES)
    /\ served.endpoint = <<"405", 0>>
    /\ \E i \in 1..Len(registered) :
          /\ registered[i].rule = served.path
          /\ served.method \in registered[i].methods
          /\ i < LastWithPath(served.path)


(***************************************************************************)
(* Claims about hook methods that only observe the value (SpecCallback)    *)
(***************************************************************************)
\* The result of a filter chain over the instances insts
ChainResult(insts, hook, request, value) ==
    LET calls == FilterCalls(insts, hook, request, value)
    IN  IF calls = << >> THEN value
        ELSE NextValue(calls[Len(calls)].arg, calls[Len(calls)].ret)

\* The chain insts with an instance of Example3, whose hook methods return
\* None, added after its first p instances
WithObserver(insts, p) ==
    SubSeq(insts, 1, p) \o << <<"Example3", 0>> >>
        \o SubSeq(insts, p + 1, Len(insts))

C39_SearchPathRestored ==
    pc = "done" => sys_path = <<"/usr/lib/python3">>

\* What the code does: the directories of SEARCH_PATH stay at the end of
\* sys.path after load_plugins has returned or raised
C39_SearchPathKept ==
    pc \in {"loop", "done", "raised"} =>
        sys_path = <<"/usr/lib/python3">> \o SEARCH_PATH

====
